---- MODULE Spec2Model ----
(***************************************************************************)
(* Model of the command pacing engine of crossfire-cyborg,                 *)
(* src/lib/client_interfacer.py: the command queue, the pending commands,  *)
(* the "watch comc" acknowledgement handling, the no-op workaround for     *)
(* commands that are never acknowledged, and the blocking operations built *)
(* on idle().  The script is one thread of control; the client/server on   *)
(* the other side of stdin/stdout runs concurrently with it.               *)
(***************************************************************************)
EXTENDS Integers, Sequences, FiniteSets, TLC

\* Bounds of the model.
MaxCommands == 3      \* queueCommand/execCommand calls in one run
MaxTarget == 3        \* largest targetPendingCommands a script sets
MaxPlayerComc == 1    \* acknowledgements of commands typed by the player
MaxBurst == 5         \* queueCommand calls in one run with a fixed target
MaxOtherInputs == 1   \* lines other than "watch comc" the client writes
MaxNumCreated == 3    \* ClientInterfacer() calls in one process
MaxParseLines == 2    \* stat, player and item lines the client writes
MaxRoutingLines == 2  \* lines of other kinds the client writes to a script with commands
MaxItemLines == 3     \* item lines and end markers the client writes
MaxItemRequests == 2  \* requestItemsOfType calls in one run
MaxWatchStats == 2    \* watchStats calls in one run
MaxStatLines == 4     \* stat blocks and stat updates the client writes
MaxCount == 3         \* largest count of a command
MaxFlags == 1023      \* largest flags value an item is constructed with
MaxStartupLines == 2   \* lines the client writes while the script starts up
MaxHandlerLines == 3     \* lines written to the stdin of the InputHandler
MaxLockstepCommands == 4 \* queueCommand calls made on both trackers
MaxChannelLines == 3  \* scripttells and other lines the client writes to a script reading the channels

VARIABLES
    commandQueue,           \* self._commandQueue (oldest first)
    pendingCommands,        \* self._pendingCommands (oldest first)
    targetPendingCommands,  \* self._targetPendingCommands
    wire,                   \* every command line written to stdout, in order
    stdin,                  \* lines the client has written that are not yet read
    served,                 \* how many entries of wire the server has executed
    op,                     \* the public operation the script is inside
    pc,                     \* where inside that operation the script is
    timeout,                \* idle()'s timeout argument: "None" or "finite"
    returned,               \* the blocking operation that has just returned, if any
    failed,                 \* the assertion that raised ("" if none)
    lastPump,               \* log of the _pumpQueue call of the last script step
    nextId,                 \* sequence number of the next queueCommand call
    playerComc,             \* acknowledgements of the player's own commands so far
    maxQueueSize,           \* maxQueueSize of the last issueQueuedCommands call
    pendingScripttells,     \* self._pendingScripttells (oldest first)
    pendingMiscInputs,      \* self._pendingMiscInputs (oldest first)
    playerInfo,             \* self.playerInfo
    itemLists,              \* self._itemLists
    itemListsInProgress,    \* self._itemListsInProgress
    sentToClient,           \* the other lines written to stdout, in order
    requestType,            \* requestType of the last item-list call
    result,                 \* <<v>> when the last call has returned the value v
    written,                \* how many lines of other kinds the client has written
    numCreated,             \* ClientInterfacer._numCreated
    instances,              \* constructor calls that got past the singleton test
    platform,               \* platform.system()
    object,                 \* the Command or Item the script has constructed last
    pipe,                   \* lines written to sys.stdin that readline() has not read
    typed,                  \* every line written to sys.stdin so far, in order
    readerPc,               \* where _doInputThread is: "readline" or "put"
    held,                   \* <<line>> the input thread has read and not yet put
    inputQueue,             \* self.inputQueue (oldest first)
    getting,                \* the waitForInput call in progress: "none", "block", "timed"
    got,                    \* what the last checkForInput or waitForInput returned
    handed,                 \* the lines returned to the consumer so far, in order
    available,              \* a line was in inputQueue at some time during the wait
    legacy                  \* the ClientInterfacer of src/client_interfacer.py

trackerVars == <<commandQueue, pendingCommands, targetPendingCommands, wire, lastPump>>
callVars == <<requestType, result>>
scriptVars == <<op, pc, timeout, returned, failed, nextId, maxQueueSize, callVars>>
envVars == <<stdin, served, playerComc, written>>
inputVars ==
    <<pendingScripttells, pendingMiscInputs, playerInfo, itemLists,
      itemListsInProgress, sentToClient>>
procVars == <<numCreated, instances, platform>>
objectVars == <<object>>
handlerVars ==
    <<pipe, typed, readerPc, held, inputQueue, getting, got, handed, available>>
legacyVars == <<legacy>>
restVars == <<objectVars, handlerVars, legacyVars>>
vars == <<trackerVars, scriptVars, envVars, inputVars, callVars, procVars, restVars>>

Max(a, b) == IF a >= b THEN a ELSE b

(***************************************************************************)
(* Strings.  A line is a string; the operators below are Python's string   *)
(* methods on it, character by character.                                  *)
(***************************************************************************)
Char(s, i) == SubSeq(s, i, i)

\* s[i:]
From(s, i) == SubSeq(s, i, Len(s))

\* The characters str.split(), str.strip() and int() treat as white space.
IsSpace(c) == c \in {" ", "\t"}

\* s.startswith(prefix)
startswith(s, prefix) == Len(s) >= Len(prefix) /\ SubSeq(s, 1, Len(prefix)) = prefix

\* checkPrefix(s, prefix): whether s starts with prefix, and the rest of s.
checkPrefix(msg, prefix) ==
    IF startswith(msg, prefix)
    THEN [has |-> TRUE, rest |-> From(msg, Len(prefix) + 1)]
    ELSE [has |-> FALSE, rest |-> msg]

chompPrefix(s, prefix) == IF startswith(s, prefix) THEN From(s, Len(prefix) + 1) ELSE s

\* s.partition(" "): the part before the first space, the space, the part after it.
partition(s) ==
    LET spaces == {i \in 1..Len(s) : Char(s, i) = " "}
        i == CHOOSE k \in spaces : \A j \in spaces : k <= j
    IN  IF spaces = {} THEN <<s, "", "">>
        ELSE <<SubSeq(s, 1, i - 1), " ", From(s, i + 1)>>

\* s.lstrip()
lstrip(s) ==
    LET solid == {i \in 1..Len(s) : ~IsSpace(Char(s, i))}
    IN  IF solid = {} THEN ""
        ELSE From(s, CHOOSE k \in solid : \A j \in solid : k <= j)

\* s.strip()
strip(s) ==
    LET solid == {i \in 1..Len(s) : ~IsSpace(Char(s, i))}
    IN  IF solid = {} THEN ""
        ELSE SubSeq(s, CHOOSE k \in solid : \A j \in solid : k <= j,
                       CHOOSE k \in solid : \A j \in solid : k >= j)

\* The first word of a string that starts with one (no leading white space).
FirstWord(s) ==
    LET blank == {i \in 1..Len(s) : IsSpace(Char(s, i))}
    IN  IF blank = {} THEN s
        ELSE SubSeq(s, 1, (CHOOSE k \in blank : \A j \in blank : k <= j) - 1)

\* s.split(None, maxsplit): at most maxsplit words cut off at runs of white
\* space, then the rest of the string as it is, without its leading white
\* space.
RECURSIVE splitMax(_, _)
splitMax(s, maxsplit) ==
    LET t == lstrip(s)
        w == FirstWord(t)
    IN  IF t = "" THEN <<>>
        ELSE IF maxsplit = 0 THEN <<t>>
        ELSE <<w>> \o splitMax(From(t, Len(w) + 1), maxsplit - 1)

\* s.split(): all the words.
split(s) == splitMax(s, Len(s))

Digits == "0123456789"

IsDigit(c) == \E d \in 1..10 : Char(Digits, d) = c

DigitValue(c) == (CHOOSE d \in 1..10 : Char(Digits, d) = c) - 1

\* Whether int(s) returns: white space around, an optional sign, digits.
\* A string for which this is false makes int(s) raise ValueError.
IsInt(s) ==
    LET t == strip(s)
        d == IF Len(t) > 0 /\ Char(t, 1) \in {"+", "-"} THEN From(t, 2) ELSE t
    IN  Len(d) > 0 /\ \A i \in 1..Len(d) : IsDigit(Char(d, i))

RECURSIVE Decimal(_)
Decimal(d) ==
    IF d = "" THEN 0
    ELSE 10 * Decimal(SubSeq(d, 1, Len(d) - 1)) + DigitValue(Char(d, Len(d)))

\* int(s), for a string with IsInt(s).
int(s) ==
    LET t == strip(s)
    IN  IF Char(t, 1) = "-" THEN 0 - Decimal(From(t, 2))
        ELSE IF Char(t, 1) = "+" THEN Decimal(From(t, 2))
        ELSE Decimal(t)

\* "%d" % n, str(n)
str(n) == ToString(n)

(***************************************************************************)
(* PlayerInfo and Item.  A field that is None in the code is <<>> here,    *)
(* and a field that holds v is <<v>>.                                      *)
(***************************************************************************)
None == <<>>

\* PlayerInfo(): lines 1286-1318.
PlayerInfo ==
    [tag |-> None, title |-> None, havePlayerId |-> FALSE,
     hp |-> None, maxhp |-> None, sp |-> None, maxsp |-> None,
     grace |-> None, maxgrace |-> None, food |-> None, haveVitalStats |-> FALSE,
     wc |-> None, ac |-> None, dam |-> None, speed |-> None,
     weapon_sp |-> None, haveCombatStats |-> FALSE,
     str |-> None, con |-> None, dex |-> None, int |-> None, wis |-> None,
     pow |-> None, cha |-> None, haveAbilityScores |-> FALSE]

VitalStats == <<"hp", "maxhp", "sp", "maxsp", "grace", "maxgrace", "food">>

CombatStats == <<"wc", "ac", "dam", "speed", "weapon_sp">>

AbilityScores == <<"str", "con", "dex", "int", "wis", "pow", "cha">>

\* The stats a "watch stats" line can set: the elif chain of _handleWatch.
WatchedStats ==
    {VitalStats[i] : i \in 1..7} \cup {CombatStats[i] : i \in 1..5}
        \cup {AbilityScores[i] : i \in 1..7}

getAllRequestTypes == <<"player", "stat hp", "stat stats", "stat cmbt">>

\* self.playerInfo.<field> = int(word), unless an earlier statement of the
\* same handler has raised.  int() raises ValueError on a word that is not a
\* number, and nothing in the handlers catches it.
Assign(st, field, word) ==
    IF st.err # "" THEN st
    ELSE IF IsInt(word) THEN [st EXCEPT !.playerInfo[field] = <<int(word)>>]
    ELSE [st EXCEPT !.err = "ValueError"]

\* The assignments of a set*Stats method, in the order of its statements.
RECURSIVE AssignAll(_, _, _)
AssignAll(st, fields, words) ==
    IF fields = <<>> THEN st
    ELSE AssignAll(Assign(st, Head(fields), Head(words)), Tail(fields), Tail(words))

setPlayerId(st, tag, title) ==
    LET s1 == Assign(st, "tag", tag)
    IN  IF s1.err # "" THEN s1
        ELSE [s1 EXCEPT !.playerInfo.title = <<title>>,
                        !.playerInfo.havePlayerId = TRUE]

\* Mutant: the vitals also mark the combat stats as present.
setVitalStatsAndMore(st, parts) ==
    LET s1 == AssignAll(st, VitalStats, parts)
    IN  IF s1.err # "" THEN s1
        ELSE [s1 EXCEPT !.playerInfo.haveVitalStats = TRUE,
                        !.playerInfo.haveCombatStats = TRUE]

setVitalStats(st, parts) ==
    LET s1 == AssignAll(st, VitalStats, parts)
    IN  IF s1.err # "" THEN s1 ELSE [s1 EXCEPT !.playerInfo.haveVitalStats = TRUE]

setCombatStats(st, parts) ==
    LET s1 == AssignAll(st, CombatStats, parts)
    IN  IF s1.err # "" THEN s1 ELSE [s1 EXCEPT !.playerInfo.haveCombatStats = TRUE]

setAbilityScores(st, parts) ==
    LET s1 == AssignAll(st, AbilityScores, parts)
    IN  IF s1.err # "" THEN s1 ELSE [s1 EXCEPT !.playerInfo.haveAbilityScores = TRUE]

\* Mutant: the player's identity is enough.
haveAnyStats(info) == info.havePlayerId

haveAllStats(info) ==
    info.havePlayerId /\ info.haveVitalStats /\ info.haveAbilityScores
        /\ info.haveCombatStats

Item(tag, num, weight, flags, clientType, name) ==
    [tag |-> tag, num |-> num, weight |-> weight, flags |-> flags,
     clientType |-> clientType, name |-> name]


\* The flag properties of Item and their bits: lines 1441-1460.
FlagBits ==
    [unidentified |-> 512, magical |-> 256, cursed |-> 128, damned |-> 64,
     unpaid |-> 32, locked |-> 16, applied |-> 8, open |-> 4, wasOpen |-> 2,
     invUpdated |-> 1]

\* a | b, a & b and a & ~b on integers that are not negative, bit by bit.
RECURSIVE BitOr(_, _)
BitOr(a, b) ==
    IF a = 0 THEN b
    ELSE IF b = 0 THEN a
    ELSE Max(a % 2, b % 2) + 2 * BitOr(a \div 2, b \div 2)

RECURSIVE BitAnd(_, _)
BitAnd(a, b) ==
    IF a = 0 \/ b = 0 THEN 0
    ELSE (a % 2) * (b % 2) + 2 * BitAnd(a \div 2, b \div 2)

RECURSIVE BitAndNot(_, _)
BitAndNot(a, b) ==
    IF a = 0 THEN 0
    ELSE (a % 2) * (1 - (b % 2)) + 2 * BitAndNot(a \div 2, b \div 2)

\* Item._flagBit: lines 1488-1489.
flagBit(item, bit) == BitAnd(item.flags, bit) # 0

locked(item) == flagBit(item, FlagBits.locked)

\* Mutant: the mask is not inverted when the bit is cleared.
setFlagBitNoInvert(item, flag, val) ==
    IF val THEN [item EXCEPT !.flags = BitOr(@, flag)]
    ELSE [item EXCEPT !.flags = BitAnd(@, flag)]

\* Item._setFlagBit: lines 1491-1495.
setFlagBit(item, flag, val) ==
    IF val THEN [item EXCEPT !.flags = BitOr(@, flag)]
    ELSE [item EXCEPT !.flags = BitAndNot(@, flag)]

\* d[key] = value and del d[key] on a dict.
Put(d, key, value) == [k \in DOMAIN d \cup {key} |-> IF k = key THEN value ELSE d[k]]

Del(d, key) == [k \in DOMAIN d \ {key} |-> d[k]]

(***************************************************************************)
(* What the script writes to stdout besides commands.                      *)
(***************************************************************************)
Color == [RED |-> 3, ORANGE |-> 4]

sendToClient(st, msg) == [st EXCEPT !.sent = Append(@, msg)]

draw(st, msg, color) == sendToClient(st, "draw " \o str(color) \o " " \o msg)

logWarning(st, msg) == draw(st, "WARNING: " \o msg, Color.ORANGE)

logError(st, msg) == draw(st, "ERROR: " \o msg, Color.RED)

(***************************************************************************)
(* Routing of a line that is not an acknowledgement.                       *)
(***************************************************************************)
\* _handleWatch: msg is the line without its "watch ".
HandleWatch(st, msg) ==
    LET stats == checkPrefix(msg, "stats ")
        parts == partition(stats.rest)
        stat  == parts[1]
        value == parts[3]
    IN  IF stats.has /\ stat \in WatchedStats THEN Assign(st, stat, value)
        ELSE st

\* Mutant: a stat block with too many fields is accepted.
WrongArityTooFew(parts, n) == Len(parts) < n

WrongArity(parts, n) == Len(parts) # n

\* _handleRequestStat: msg is the line without its "request stat ".
HandleRequestStat(st, msg) ==
    LET vital  == checkPrefix(msg, "hp ")
        combat == checkPrefix(msg, "cmbt ")
        abil   == checkPrefix(msg, "stats ")
    IN  IF vital.has
        THEN IF WrongArity(split(vital.rest), 7)
             THEN logError(st, "\"request stat hp\": got "
                               \o str(Len(split(vital.rest))) \o " items, expected 7.")
             ELSE setVitalStats(st, split(vital.rest))
        ELSE IF combat.has
        THEN IF WrongArity(split(combat.rest), 5)
             THEN logError(st, "\"request stat cmbt\": got "
                               \o str(Len(split(combat.rest))) \o " items, expected 5.")
             ELSE setCombatStats(st, split(combat.rest))
        ELSE IF abil.has
        THEN IF WrongArity(split(abil.rest), 7)
             THEN logError(st, "\"request stat stats\": got "
                               \o str(Len(split(abil.rest))) \o " items, expected 7.")
             ELSE setAbilityScores(st, split(abil.rest))
        ELSE logError(st, "Unrecognized request stat \"" \o msg \o "\"")

\* Mutant: the end marker appends the new list to the older completed one.
PromoteKeepingOld(st, itemType) ==
    [st EXCEPT !.itemLists =
                   Put(@, itemType,
                       (IF itemType \in DOMAIN @ THEN @[itemType] ELSE <<>>)
                           \o st.itemListsInProgress[itemType]),
               !.itemListsInProgress = Del(@, itemType)]

\* The end marker: lines 1134-1136.
Promote(st, itemType) ==
    [st EXCEPT !.itemLists = Put(@, itemType, st.itemListsInProgress[itemType]),
               !.itemListsInProgress = Del(@, itemType)]

\* _handleRequestItem: msg is the line without its "request items ".
HandleRequestItem(st, msg) ==
    LET itemType == partition(msg)[1]
        rest     == partition(msg)[3]
        parts    == splitMax(rest, 5)
    IN  IF itemType \notin DOMAIN st.itemListsInProgress
        THEN logWarning(st, "Received unexpected request items " \o itemType
                            \o " \"" \o rest \o "\"")
        ELSE IF rest = "end" THEN Promote(st, itemType)
        ELSE IF Len(parts) # 6
        THEN logError(st, "\"request items " \o itemType \o "\": got "
                          \o str(Len(parts)) \o " fields, expected 6.")
        ELSE IF \E i \in 1..5 : ~IsInt(parts[i]) THEN [st EXCEPT !.err = "ValueError"]
        ELSE [st EXCEPT !.itemListsInProgress[itemType] =
                            Append(@, Item(int(parts[1]), int(parts[2]), int(parts[3]),
                                           int(parts[4]), int(parts[5]), parts[6]))]

\* _handleRequest: msg is the line without its "request ".
HandleRequest(st, msg) ==
    LET stat   == checkPrefix(msg, "stat ")
        item   == checkPrefix(msg, "items ")
        player == checkPrefix(msg, "player ")
        tag    == partition(player.rest)[1]
        title  == lstrip(chompPrefix(partition(player.rest)[3], "Player:"))
    IN  IF stat.has THEN HandleRequestStat(st, stat.rest)
        ELSE IF item.has THEN HandleRequestItem(st, item.rest)
        ELSE IF player.has THEN setPlayerId(st, tag, title)
        ELSE logError(st, "Unrecognized request \"" \o msg \o "\"")

\* Mutant: a scripttell is stored with its prefix.
StoreScripttellWhole(st, msg, rest) == [st EXCEPT !.scripttells = Append(@, msg)]

StoreScripttell(st, msg, rest) == [st EXCEPT !.scripttells = Append(@, rest)]

\* _handleClientInput after its "watch comc" test: lines 969-989.
RouteInput(st, msg) ==
    LET watch      == checkPrefix(msg, "watch ")
        request    == checkPrefix(msg, "request ")
        scripttell == checkPrefix(msg, "scripttell ")
    IN  IF watch.has THEN HandleWatch(st, watch.rest)
        ELSE IF request.has THEN HandleRequest(st, request.rest)
        ELSE IF scripttell.has THEN StoreScripttell(st, msg, scripttell.rest)
        ELSE [st EXCEPT !.miscInputs = Append(@, msg)]

(***************************************************************************)
(* Commands.                                                               *)
(***************************************************************************)
Command(id, isSpecial) == [id |-> id, isSpecial |-> isSpecial]

getsComc(cmd) == ~cmd.isSpecial

\* Command("stay"): an ordinary command, so it is acknowledged.  id 0 marks it
\* as the one command no queueCommand call enqueued.
NoOp == Command(0, FALSE)

IsNoOp(cmd) == cmd.id = 0

\* Command.DEFAULT_COUNT
DEFAULT_COUNT == 1

\* Command(commandString, count, isSpecial) with its text: lines 1385-1388.
\* count is None or <<c>>.
CommandObject(commandString, count, isSpecial) ==
    [commandString |-> commandString, count |-> count, isSpecial |-> isSpecial]

\* Mutant: the count and the 1 are written for special commands as well.
encodeWithCount(cmd) ==
    LET count == IF cmd.count = None THEN DEFAULT_COUNT ELSE cmd.count[1]
    IN  "issue " \o str(count) \o " 1 " \o cmd.commandString

\* Command.encode: lines 1400-1407.
encode(cmd) ==
    LET count == IF cmd.count = None THEN DEFAULT_COUNT ELSE cmd.count[1]
        ret   == IF ~cmd.isSpecial THEN "issue " \o str(count) \o " 1 "
                 ELSE "issue "
    IN  ret \o cmd.commandString

(***************************************************************************)
(* Bounds on the number of pending commands.                               *)
(***************************************************************************)
AnyGetsComc(p) == \E i \in 1..Len(p) : getsComc(p[i])

\* Mutant: the loop does not stop at the first acknowledgeable command.
NumUncertainAnywhere(p) == Cardinality({i \in 1..Len(p) : ~getsComc(p[i])})

\* The pending commands at the front that would not be acknowledged anyway.
NumUncertain(p) ==
    IF AnyGetsComc(p)
    THEN (CHOOSE i \in 1..Len(p) :
              getsComc(p[i]) /\ \A j \in 1..(i - 1) : ~getsComc(p[j])) - 1
    ELSE Len(p)

BoundPendingCommandsLow(p) == Len(p) - NumUncertain(p)

BoundPendingCommandsHigh(p) == Len(p)

HasTargetPendingCommands(p, t) == BoundPendingCommandsLow(p) >= t

\* Mutant: waiting counts as safe only when nothing is pending.
CanWaitOnlyWhenEmpty(p) == Len(p) = 0

CanWaitOnPendingCommands(p) == Len(p) = 0 \/ AnyGetsComc(p)

(***************************************************************************)
(* The tracker's code runs on a record st: q and p are the command queue   *)
(* and the pending commands, out the commands written to stdout so far in  *)
(* this step, err the assertion that raised ("" if none: once an assertion *)
(* has raised, nothing after it runs), log the log of the last _pumpQueue. *)
(***************************************************************************)
NoPump == [ran |-> FALSE]

Tracker(q, p) == [q |-> q, p |-> p, out |-> <<>>, err |-> "", log |-> NoPump]

Raise(st, what) == [st EXCEPT !.err = what]

\* Mutant: the command is written to stdout twice.
SendCommandTwice(st, command) ==
    [st EXCEPT !.out = Append(Append(@, command), command),
               !.p = Append(@, command)]

SendCommand(st, command) ==
    [st EXCEPT !.out = Append(@, command), !.p = Append(@, command)]

\* Mutant: the no-op is not sent.
SendNothing(st) == st

SendNoOp(st) == SendCommand(st, NoOp)

CheckInvariants(st, t) ==
    IF st.err # "" THEN st
    ELSE IF HasTargetPendingCommands(st.p, t) \/ Len(st.q) = 0 THEN st
    ELSE Raise(st, "_checkInvariants")

\* Mutant: the no-op is sent whether it is needed or not.
EnsureAlwaysSends(st) ==
    IF st.err # "" THEN st ELSE SendCommand(st, Command(0, FALSE))

\* Mutant: the no-op is never sent, and nothing is asserted.
EnsureNothing(st) == st

EnsureCanWaitOnPendingCommands(st) ==
    IF st.err # "" THEN st
    ELSE LET s1 == IF ~CanWaitOnPendingCommands(st.p) THEN SendNoOp(st) ELSE st
         IN  IF CanWaitOnPendingCommands(s1.p) THEN s1
             ELSE Raise(s1, "_ensureCanWaitOnPendingCommands")

(***************************************************************************)
(* _pumpQueue.                                                             *)
(***************************************************************************)
\* Mutant: allows target commands in a row instead of target - 1.
maxConsecutiveNonComcOffByOne(t) == Max(t, 1)

maxConsecutiveNonComc(t) == Max(t - 1, 1)

\* Mutant: collections.deque.pop(), which takes the newest queued command.
pop(q) == [item |-> q[Len(q)], rest |-> SubSeq(q, 1, Len(q) - 1)]

\* collections.deque.popleft(): the oldest queued command and the rest.
popleft(q) == [item |-> Head(q), rest |-> Tail(q)]

\* What _pumpQueue sees at the moment it injects a no-op.
Injection(l, nextCommand, t) ==
    [nextGetsComc    |-> getsComc(nextCommand),
     pendingGetsComc |-> AnyGetsComc(l.p),
     numPending      |-> Len(l.p),
     target          |-> t]

\* The workaround's test, on the loop's local variables.
NeedsNoOp(l, nextCommand, t) ==
    /\ ~l.anyGetsComc
    /\ ~getsComc(nextCommand)
    /\ Len(l.p) >= maxConsecutiveNonComc(t)

\* One iteration of the dispatch loop after the popleft.
PumpIteration(l, nextCommand, t) ==
    LET l1 == IF NeedsNoOp(l, nextCommand, t)
              THEN IF l.lowBound # 0
                   THEN Raise(l, "_pumpQueue: lowBound == 0")
                   ELSE [SendNoOp(l) EXCEPT
                            !.anyGetsComc = TRUE,
                            !.lowBound = 1,
                            !.inj = @ \cup {Injection(l, nextCommand, t)}]
              ELSE l
    IN  IF l1.err # "" THEN l1
        ELSE [SendCommand(l1, nextCommand) EXCEPT
                 !.sentAny = TRUE,
                 !.lowBound = IF l1.anyGetsComc THEN @ + 1 ELSE @]

\* Mutant: the loop also runs when lowBound has reached the target.
LoopGoesOnAtTarget(l, t) == Len(l.q) # 0 /\ l.lowBound <= t

\* The condition of the dispatch loop: line 411.
LoopGoesOn(l, t) == Len(l.q) # 0 /\ l.lowBound < t

RECURSIVE PumpLoop(_, _)
PumpLoop(l, t) ==
    IF l.err # "" \/ ~LoopGoesOn(l, t) THEN l
    ELSE LET popped == popleft(l.q)
         IN  PumpLoop(PumpIteration([l EXCEPT !.q = popped.rest],
                                    popped.item, t), t)

PumpQueue(st, t) ==
    IF st.err # "" THEN st
    ELSE
    LET lowBound    == BoundPendingCommandsLow(st.p)
        anyGetsComc == AnyGetsComc(st.p)
    IN  IF anyGetsComc # (lowBound # 0)
        THEN Raise(st, "_pumpQueue: anyGetsComc == (lowBound != 0)")
        ELSE
        LET l == PumpLoop([q |-> st.q, p |-> st.p, out |-> st.out, err |-> "",
                           lowBound |-> lowBound, anyGetsComc |-> anyGetsComc,
                           sentAny |-> FALSE, inj |-> {}], t)
            err == IF l.err # "" THEN l.err
                   ELSE IF ~(HasTargetPendingCommands(l.p, t) \/ Len(l.q) = 0)
                   THEN "_pumpQueue: postcondition"
                   ELSE IF l.sentAny
                           /\ ~(BoundPendingCommandsLow(l.p) <= Max(2, t))
                   THEN "_pumpQueue: sent more than the minimum"
                   ELSE ""
        IN  [st EXCEPT
             !.q = l.q, !.p = l.p, !.out = l.out, !.err = err,
             !.log = [ran      |-> TRUE,
                      queue0   |-> st.q,
                      pending0 |-> st.p,
                      target   |-> t,
                      sent     |-> SubSeq(l.out, Len(st.out) + 1, Len(l.out)),
                      sentAny  |-> l.sentAny,
                      inj      |-> l.inj,
                      lowAfter |-> BoundPendingCommandsLow(l.p),
                      anyAfter |-> AnyGetsComc(l.p),
                      lowBound |-> l.lowBound,
                      anyGetsComc |-> l.anyGetsComc]]

(***************************************************************************)
(* Handling of one "watch comc" line: pop the pending commands up to and   *)
(* including the first one that gets a comc, then pump the queue.          *)
(***************************************************************************)
\* Mutant: one comc pops one pending command, whichever it is.
PopOne(p) == Tail(p)

\* Mutant: the loop has no break and pops every pending command.
PopAllPending(p) == <<>>

PopResolved(p) ==
    IF AnyGetsComc(p) THEN SubSeq(p, NumUncertain(p) + 2, Len(p)) ELSE <<>>

HandleComc(st, t) ==
    IF st.err # "" THEN st
    ELSE IF Len(st.p) > 0 THEN PumpQueue([st EXCEPT !.p = PopResolved(@)], t)
    ELSE st

(***************************************************************************)
(* Public operations of the tracker, as run on a tracker record.           *)
(***************************************************************************)
Append1(st, command) ==
    IF st.err # "" THEN st ELSE [st EXCEPT !.q = Append(@, command)]

\* queueCommand: lines 213-220.
QueueCommandOn(st, command, t) ==
    CheckInvariants(PumpQueue(Append1(CheckInvariants(st, t), command), t), t)

\* Mutant: setTargetPendingCommands without its _pumpQueue call.
SetTargetWithoutPump(st, t0, t) ==
    CheckInvariants(CheckInvariants(st, t0), t)

\* setTargetPendingCommands: lines 352-357 (the pump runs with the new target).
SetTargetOn(st, t0, t) ==
    CheckInvariants(PumpQueue(CheckInvariants(st, t0), t), t)

\* Mutant: dropAllQueuedCommands forgets the pending commands as well.
DropAllAndPending(st, t) ==
    LET s1 == CheckInvariants(st, t)
    IN  CheckInvariants(IF s1.err # "" THEN s1
                        ELSE [s1 EXCEPT !.q = <<>>, !.p = <<>>], t)

\* dropAllQueuedCommands: lines 369-371.
DropAllOn(st, t) ==
    LET s1 == CheckInvariants(st, t)
    IN  CheckInvariants(IF s1.err # "" THEN s1 ELSE [s1 EXCEPT !.q = <<>>], t)

\* Mutant: flushCommands waits on the lower bound of the pending commands.
PredOnLowBound(o, st) ==
    CASE o = "flushCommands" ->
             Len(st.q) = 0 /\ BoundPendingCommandsLow(st.p) = 0
      [] o = "issueQueuedCommands" -> Len(st.q) <= st.maxQueueSize
      [] o \in {"waitForScripttell", "getNextScripttell"} -> Len(st.scripttells) > 0
      [] o \in {"waitForMiscInput", "getNextMiscInput"} -> Len(st.miscInputs) > 0
      [] o = "getItemsOfType" -> st.requestType \in DOMAIN st.itemLists
      [] o = "watchStats" -> haveAllStats(st.playerInfo)
      [] o = "__init__" -> st.playerInfo.tag # None

\* The condition a blocking operation idles until: the lambda it passes to
\* _idleUntil.
Pred(o, st) ==
    CASE o = "flushCommands" ->
             Len(st.q) = 0 /\ BoundPendingCommandsHigh(st.p) = 0
      [] o = "issueQueuedCommands" -> Len(st.q) <= st.maxQueueSize
      [] o \in {"waitForScripttell", "getNextScripttell"} -> Len(st.scripttells) > 0
      [] o \in {"waitForMiscInput", "getNextMiscInput"} -> Len(st.miscInputs) > 0
      [] o = "getItemsOfType" -> st.requestType \in DOMAIN st.itemLists
      [] o = "watchStats" -> haveAllStats(st.playerInfo)
      [] o = "__init__" -> st.playerInfo.tag # None

\* _idleUntil from the top of its loop to the point where it returns or where
\* idle() starts to wait: _checkInvariants, pred(), and when pred() is false
\* idle()'s _checkInvariants and _ensureCanWaitOnPendingCommands.
IdleUntilOn(o, st, t) ==
    LET s1 == CheckInvariants(st, t)
    IN  IF s1.err # "" THEN s1
        ELSE IF Pred(o, s1) THEN CheckInvariants(s1, t)
        ELSE EnsureCanWaitOnPendingCommands(CheckInvariants(s1, t))

\* flushCommands up to _idleUntil: lines 292-294.
FlushCommandsOn(st, t) == EnsureCanWaitOnPendingCommands(CheckInvariants(st, t))

\* The object as the script's next step finds it.
Here ==
    Tracker(commandQueue, pendingCommands)
        @@ [maxQueueSize |-> maxQueueSize,
            scripttells  |-> pendingScripttells,
            miscInputs   |-> pendingMiscInputs,
            playerInfo   |-> playerInfo,
            itemLists    |-> itemLists,
            itemListsInProgress |-> itemListsInProgress,
            requestType  |-> requestType,
            sent         |-> <<>>]

(***************************************************************************)
(* Lines from the client.                                                  *)
(***************************************************************************)
WatchComc == "watch comc"

\* The lines other than "watch comc" that the client writes in this model: a
\* scripttell of the player, and a line no handler claims.
ScripttellLine == "scripttell hi"

MiscLine == "monitor"


\* Mutant: no select() before the read, so that an empty stdin reads as ready.
CheckForClientInputAlways(in) == TRUE

\* Mutant: select() does not see the lines that have arrived.
CheckForClientInputMisses(in) == FALSE

\* _checkForClientInput: select() on stdin with a timeout of 0.
CheckForClientInput(in) == Len(in) > 0

HasQueries == {"hasScripttell", "hasMiscInput"}

\* The player's answer to the constructor's "request player", and the
\* PlayerInfo the constructor has when it returns: it waits for the tag.
PlayerLine == "request player 1 Player: Bob the Human"

PlayerKnown ==
    RouteInput([playerInfo |-> PlayerInfo, err |-> ""], PlayerLine).playerInfo

(***************************************************************************)
(* The tracker of the earlier ClientInterfacer (src/client_interfacer.py): *)
(* a queue of encoded commands and a count of the pending ones.            *)
(***************************************************************************)
\* __init__: lines 120-122.
LegacyObject(maxPendingCommands) ==
    [commandQueue       |-> <<>>,
     numPendingCommands |-> 0,
     maxPendingCommands |-> maxPendingCommands,
     wire               |-> <<>>,
     failed             |-> ""]

\* _encodeCommand for a command given as a string: lines 346-353.
LegacyEncodeCommand(command, count) ==
    LET c == IF count = None THEN DEFAULT_COUNT ELSE count[1]
    IN  "issue " \o str(c) \o " 1 " \o command

\* _sendCommand: lines 342-344.
LegacySendCommand(lg, encodedCommand) ==
    [lg EXCEPT !.wire = Append(@, encodedCommand),
               !.numPendingCommands = @ + 1]

\* The assertion of _checkInvariants and of _pumpQueue: lines 339-340, 355-357.
LegacyCheckInvariants(lg) ==
    IF lg.failed # "" THEN lg
    ELSE IF lg.numPendingCommands >= lg.maxPendingCommands
            \/ Len(lg.commandQueue) = 0 THEN lg
    ELSE [lg EXCEPT !.failed = "AssertionError"]

\* The condition of the loop of _pumpQueue: lines 335-336.
LegacyLoopGoesOn(lg) ==
    /\ Len(lg.commandQueue) # 0
    /\ lg.numPendingCommands < lg.maxPendingCommands

\* The loop of _pumpQueue: lines 335-337.
RECURSIVE LegacyPumpLoop(_)
LegacyPumpLoop(lg) ==
    IF ~LegacyLoopGoesOn(lg) THEN lg
    ELSE LegacyPumpLoop(LegacySendCommand(
             [lg EXCEPT !.commandQueue = Tail(@)], Head(lg.commandQueue)))

\* _pumpQueue: lines 323-340.
LegacyPumpQueue(lg) ==
    IF lg.failed # "" THEN lg ELSE LegacyCheckInvariants(LegacyPumpLoop(lg))

\* queueCommand: lines 174-179.
LegacyQueueCommand(lg, command, count) ==
    LET l1 == LegacyCheckInvariants(lg)
        l2 == IF l1.failed # "" THEN l1
              ELSE [l1 EXCEPT !.commandQueue =
                                  Append(@, LegacyEncodeCommand(command, count))]
    IN  LegacyCheckInvariants(LegacyPumpQueue(l2))

\* dropAllQueuedCommands: lines 300-302.
LegacyDropAllQueuedCommands(lg) ==
    LET l1 == LegacyCheckInvariants(lg)
    IN  LegacyCheckInvariants(IF l1.failed # "" THEN l1
                              ELSE [l1 EXCEPT !.commandQueue = <<>>])

\* _handleClientInput for a "watch comc" line: lines 538-546.
LegacyHandleComc(lg) ==
    IF lg.failed # "" THEN lg
    ELSE IF lg.numPendingCommands > 0
    THEN LegacyPumpQueue([lg EXCEPT !.numPendingCommands = @ - 1])
    ELSE lg

(***************************************************************************)
(* InputHandler after its constructor: an empty queue.Queue and the input  *)
(* thread about to call sys.stdin.readline().                              *)
(***************************************************************************)
InputHandlerInit ==
    /\ pipe = <<>>
    /\ typed = <<>>
    /\ readerPc = "readline"
    /\ held = None
    /\ inputQueue = <<>>
    /\ getting = "none"
    /\ got = None
    /\ handed = <<>>
    /\ available = FALSE

(***************************************************************************)
(* The state after the constructor has returned.                           *)
(***************************************************************************)
Init ==
    /\ commandQueue = <<>>
    /\ pendingCommands = <<>>
    /\ targetPendingCommands \in 0..MaxTarget
    /\ wire = <<>>
    /\ stdin = <<>>
    /\ served = 0
    /\ op = "none"
    /\ pc = "ready"
    /\ timeout = "None"
    /\ returned = ""
    /\ failed = ""
    /\ lastPump = NoPump
    /\ nextId = 1
    /\ playerComc = 0
    /\ maxQueueSize = 0
    /\ pendingScripttells = <<>>
    /\ pendingMiscInputs = <<>>
    /\ playerInfo = PlayerKnown
    /\ itemLists = <<>>
    /\ itemListsInProgress = <<>>
    /\ sentToClient = <<WatchComc, "request player">>
    /\ requestType = ""
    /\ result = None
    /\ written = 0
    /\ numCreated = 1
    /\ instances = 1
    /\ platform = "Linux"
    /\ object = None
    /\ InputHandlerInit
    /\ legacy = LegacyObject(targetPendingCommands)

\* The tracker's variables after the code that produced st has run.
Commit(st) ==
    /\ commandQueue' = st.q
    /\ pendingCommands' = st.p
    /\ wire' = wire \o st.out
    /\ lastPump' = st.log
    /\ failed' = st.err

\* The input side of the object after the code that produced st has run.
CommitInputs(st) ==
    /\ pendingScripttells' = st.scripttells
    /\ pendingMiscInputs' = st.miscInputs
    /\ playerInfo' = st.playerInfo
    /\ itemLists' = st.itemLists
    /\ itemListsInProgress' = st.itemListsInProgress
    /\ sentToClient' = sentToClient \o st.sent

\* The non-blocking operation o (or idle) has run to st and returns to the
\* script (unless it raised).
Return(o, st) ==
    /\ Commit(st)
    /\ pc' = IF st.err # "" THEN "aborted" ELSE "ready"
    /\ op' = IF st.err # "" THEN o ELSE "none"
    /\ returned' = ""
    /\ timeout' = "None"

\* The blocking operation o has run to st, inside _idleUntil: it returns when pred()
\* holds and waits for input inside idle() when it does not.
ReturnOrWait(o, st) ==
    /\ Commit(st)
    /\ pc' = IF st.err # "" THEN "aborted"
             ELSE IF Pred(o, st) THEN "ready" ELSE "wait"
    /\ op' = IF st.err = "" /\ Pred(o, st) THEN "none" ELSE o
    /\ returned' = IF st.err = "" /\ Pred(o, st) THEN o ELSE ""
    /\ timeout' = "None"

(***************************************************************************)
(* The script's calls.                                                     *)
(***************************************************************************)
QueueCommandCall(isSpecial) ==
    /\ pc = "ready"
    /\ Return("queueCommand",
              QueueCommandOn(Here, Command(nextId, isSpecial), targetPendingCommands))
    /\ nextId' = nextId + 1
    /\ UNCHANGED <<targetPendingCommands, maxQueueSize, envVars, inputVars, requestType,
                   procVars, restVars>>
    /\ result' = None

QueueCommand(isSpecial) == nextId <= MaxCommands /\ QueueCommandCall(isSpecial)

\* A queueCommand call of a script that leaves the target as constructed.
BurstQueueCommand(isSpecial) == nextId <= MaxBurst /\ QueueCommandCall(isSpecial)

ExecCommand(isSpecial) ==
    /\ pc = "ready"
    /\ nextId <= MaxCommands
    /\ LET t  == targetPendingCommands
           s1 == CheckInvariants(Here, t)
           s2 == QueueCommandOn(s1, Command(nextId, isSpecial), t)
           s3 == FlushCommandsOn(s2, t)
       IN  ReturnOrWait("flushCommands", IdleUntilOn("flushCommands", s3, t))
    /\ nextId' = nextId + 1
    /\ UNCHANGED <<targetPendingCommands, maxQueueSize, envVars, inputVars, requestType,
                   procVars, restVars>>
    /\ result' = None

FlushCommands ==
    /\ pc = "ready"
    /\ LET t == targetPendingCommands
       IN  ReturnOrWait("flushCommands",
                        IdleUntilOn("flushCommands", FlushCommandsOn(Here, t), t))
    /\ UNCHANGED <<targetPendingCommands, nextId, maxQueueSize, envVars,
                   inputVars, requestType, procVars, restVars>>
    /\ result' = None

SetTargetPendingCommands(n) ==
    /\ pc = "ready"
    /\ Return("setTargetPendingCommands", SetTargetOn(Here, targetPendingCommands, n))
    /\ targetPendingCommands' = n
    /\ UNCHANGED <<nextId, maxQueueSize, envVars, inputVars, requestType, procVars, restVars>>
    /\ result' = None

DropAllQueuedCommands ==
    /\ pc = "ready"
    /\ Return("dropAllQueuedCommands", DropAllOn(Here, targetPendingCommands))
    /\ UNCHANGED <<targetPendingCommands, nextId, maxQueueSize, envVars,
                   inputVars, requestType, procVars, restVars>>
    /\ result' = None

\* issueQueuedCommands(maxQueueSize) up to the point where _idleUntil returns
\* or idle() starts to wait.
IssueQueuedCommands(m) ==
    /\ pc = "ready"
    /\ LET t  == targetPendingCommands
           s1 == CheckInvariants([Here EXCEPT !.maxQueueSize = m], t)
       IN  ReturnOrWait("issueQueuedCommands",
                        IdleUntilOn("issueQueuedCommands", s1, t))
    /\ maxQueueSize' = m
    /\ UNCHANGED <<targetPendingCommands, nextId, envVars, inputVars, requestType, procVars, restVars>>
    /\ result' = None

\* issueCommand(command, maxQueueSize): queueCommand, then issueQueuedCommands.
IssueCommand(isSpecial, m) ==
    /\ pc = "ready"
    /\ nextId <= MaxCommands
    /\ LET t  == targetPendingCommands
           s1 == CheckInvariants([Here EXCEPT !.maxQueueSize = m], t)
           s2 == QueueCommandOn(s1, Command(nextId, isSpecial), t)
           s3 == CheckInvariants(s2, t)
       IN  ReturnOrWait("issueQueuedCommands",
                        IdleUntilOn("issueQueuedCommands", s3, t))
    /\ maxQueueSize' = m
    /\ nextId' = nextId + 1
    /\ UNCHANGED <<targetPendingCommands, envVars, inputVars, requestType, procVars, restVars>>
    /\ result' = None

\* The queue a has*, waitFor* or getNext* call is about.
QueueOf(o) ==
    IF o \in {"hasScripttell", "waitForScripttell", "getNextScripttell"}
    THEN pendingScripttells ELSE pendingMiscInputs

GetNextOps == {"getNextScripttell", "getNextMiscInput"}

\* The value the blocking operation o hands to the script when it returns
\* from st: queue.popleft() (line 926), itemsOfType(requestType) (line 815).
ReturnValue(o, st) ==
    CASE o = "getNextScripttell" -> <<Head(st.scripttells)>>
      [] o = "getNextMiscInput" -> <<Head(st.miscInputs)>>
      [] o = "getItemsOfType" -> <<st.itemLists[st.requestType]>>
      [] OTHER -> None

\* Mutant: getNext* returns the oldest message and leaves it in the queue.
PopleftKeeps(o, st) == st

\* The queues after the operation o has returned from st: queue.popleft().
Popleft(o, st) ==
    CASE o = "getNextScripttell" -> [st EXCEPT !.scripttells = Tail(@)]
      [] o = "getNextMiscInput" -> [st EXCEPT !.miscInputs = Tail(@)]
      [] OTHER -> st

\* The input side and the returned value after the blocking operation o has
\* run to st, inside _idleUntil: it returns when pred() holds.
Deliver(o, st) ==
    IF st.err = "" /\ Pred(o, st)
    THEN CommitInputs(Popleft(o, st)) /\ result' = ReturnValue(o, st)
    ELSE CommitInputs(st) /\ result' = None

\* hasScripttell() and hasMiscInput(): _hasInputInQueue answers at once when
\* the queue is not empty, and handles the lines that have arrived otherwise.
HasInputInQueue(o) ==
    /\ pc = "ready"
    /\ Commit(Here)
    /\ pc' = IF Len(QueueOf(o)) > 0 THEN "ready" ELSE "drain"
    /\ op' = IF Len(QueueOf(o)) > 0 THEN "none" ELSE o
    /\ result' = IF Len(QueueOf(o)) > 0 THEN <<TRUE>> ELSE None
    /\ returned' = ""
    /\ timeout' = "None"
    /\ UNCHANGED <<targetPendingCommands, nextId, maxQueueSize, envVars,
                   inputVars, requestType, procVars, restVars>>

\* getNextScripttell() and getNextMiscInput(): _getNextInputFromQueue.
GetNextInputFromQueue(o) ==
    /\ pc = "ready"
    /\ LET st == IdleUntilOn(o, Here, targetPendingCommands)
       IN  ReturnOrWait(o, st) /\ Deliver(o, st)
    /\ UNCHANGED <<targetPendingCommands, nextId, maxQueueSize, envVars,
                   requestType, procVars, restVars>>

\* Mutant: a request is sent, and the list started afresh, whatever is in
\* progress.
RequestItemsAgain(st, t) ==
    sendToClient([st EXCEPT !.itemListsInProgress = Put(@, t, <<>>)],
                 "request items " \o t)

\* requestItemsOfType(requestType): lines 825-830.
RequestItemsOfTypeOn(st, t) ==
    IF t \in DOMAIN st.itemListsInProgress
    THEN logError(st, "Already in the middle of requesting items " \o t
                      \o ", better not request them again.")
    ELSE sendToClient([st EXCEPT !.itemListsInProgress = Put(@, t, <<>>)],
                      "request items " \o t)

\* The requestItemsOfType calls so far: each one wrote its request or its error.
NumItemRequests ==
    Cardinality({i \in 1..Len(sentToClient) :
                     \/ startswith(sentToClient[i], "request items ")
                     \/ startswith(sentToClient[i], "draw 3 ERROR: Already")})

RequestItemsOfType(t) ==
    /\ pc = "ready"
    /\ NumItemRequests < MaxItemRequests
    /\ LET st == RequestItemsOfTypeOn(Here, t)
       IN  Return("requestItemsOfType", st) /\ CommitInputs(st)
    /\ requestType' = t
    /\ result' = None
    /\ UNCHANGED <<targetPendingCommands, nextId, maxQueueSize, envVars, procVars, restVars>>

\* getItemsOfType(requestType) up to the point where _idleUntil returns or
\* idle() starts to wait: lines 812-815.
GetItemsOfType(t) ==
    /\ pc = "ready"
    /\ t \in DOMAIN itemListsInProgress \/ NumItemRequests < MaxItemRequests
    /\ LET s0 == [Here EXCEPT !.requestType = t]
           s1 == IF t \notin DOMAIN s0.itemListsInProgress
                 THEN RequestItemsOfTypeOn(s0, t) ELSE s0
           s2 == IdleUntilOn("getItemsOfType", s1, targetPendingCommands)
       IN  ReturnOrWait("getItemsOfType", s2) /\ Deliver("getItemsOfType", s2)
    /\ requestType' = t
    /\ UNCHANGED <<targetPendingCommands, nextId, maxQueueSize, envVars, procVars, restVars>>

\* The lines watchStats writes: lines 732-734.
RECURSIVE SendAll(_, _)
SendAll(st, msgs) ==
    IF msgs = <<>> THEN st
    ELSE SendAll(sendToClient(st, "request " \o Head(msgs)), Tail(msgs))

WatchStatsOn(st) == sendToClient(SendAll(st, getAllRequestTypes), "watch stats")

\* watchStats(waitForInitialValues) up to the point where it returns or
\* idle() starts to wait.
WatchStats(waitForInitialValues) ==
    /\ pc = "ready"
    /\ Cardinality({i \in 1..Len(sentToClient) : sentToClient[i] = "watch stats"})
           < MaxWatchStats
    /\ IF waitForInitialValues
       THEN LET st == IdleUntilOn("watchStats", WatchStatsOn(Here),
                                  targetPendingCommands)
            IN  ReturnOrWait("watchStats", st) /\ Deliver("watchStats", st)
       ELSE Return("watchStats", WatchStatsOn(Here))
                /\ CommitInputs(WatchStatsOn(Here)) /\ result' = None
    /\ UNCHANGED <<targetPendingCommands, nextId, maxQueueSize, envVars,
                   requestType, procVars, restVars>>

\* waitForScripttell() and waitForMiscInput(): _waitForInputInQueue.
WaitForInputInQueue(o) ==
    /\ pc = "ready"
    /\ ReturnOrWait(o, IdleUntilOn(o, Here, targetPendingCommands))
    /\ UNCHANGED <<targetPendingCommands, nextId, maxQueueSize, envVars,
                   inputVars, requestType, procVars, restVars>>
    /\ result' = None

\* idle(timeout) up to _waitForClientInput: lines 679-690.
Idle(tmo) ==
    /\ pc = "ready"
    /\ LET st == EnsureCanWaitOnPendingCommands(
                     CheckInvariants(Here, targetPendingCommands))
       IN  /\ Commit(st)
           /\ pc' = IF st.err # "" THEN "aborted" ELSE "wait"
    /\ op' = "idle"
    /\ returned' = ""
    /\ timeout' = tmo
    /\ UNCHANGED <<targetPendingCommands, nextId, maxQueueSize, envVars,
                   inputVars, requestType, procVars, restVars>>
    /\ result' = None

\* pumpEvents up to _handlePendingClientInputs: line 710.
PumpEvents ==
    /\ pc = "ready"
    /\ LET st == CheckInvariants(Here, targetPendingCommands)
       IN  /\ Commit(st)
           /\ pc' = IF st.err # "" THEN "aborted" ELSE "drain"
    /\ op' = "pumpEvents"
    /\ returned' = ""
    /\ timeout' = "None"
    /\ UNCHANGED <<targetPendingCommands, nextId, maxQueueSize, envVars,
                   inputVars, requestType, procVars, restVars>>
    /\ result' = None

(***************************************************************************)
(* Inside idle() and pumpEvents().                                         *)
(***************************************************************************)
\* _waitForClientInput: select() returns when stdin is readable, or when a
\* finite timeout has run out.
WaitForClientInput ==
    /\ pc = "wait"
    /\ stdin # <<>> \/ timeout = "finite"
    /\ pc' = "drain"
    /\ UNCHANGED <<trackerVars, envVars, inputVars, callVars, procVars, restVars, op, timeout,
                   returned, failed, nextId, maxQueueSize>>

\* One turn of _handlePendingClientInputs' loop: _checkForClientInput() says
\* yes, _readLineFromClient() reads the line, _handleClientInput routes it.
HandleClientInput ==
    /\ pc = "drain"
    /\ CheckForClientInput(stdin)
    /\ stdin # <<>>    \* sys.stdin.readline() returns once a line is there
    /\ stdin' = Tail(stdin)
    /\ LET msg == Head(stdin)
           st  == HandleComc(Here, targetPendingCommands)
           in  == RouteInput(Here, msg)
       IN  IF startswith(msg, WatchComc)
           THEN /\ Commit(st)
                /\ pc' = IF st.err # "" THEN "aborted" ELSE "drain"
                /\ UNCHANGED inputVars
           ELSE /\ CommitInputs(in)
                /\ failed' = in.err
                /\ pc' = IF in.err # "" THEN "aborted" ELSE "drain"
                /\ UNCHANGED <<commandQueue, pendingCommands, wire, lastPump>>
    /\ UNCHANGED <<targetPendingCommands, op, timeout, returned, nextId,
                   maxQueueSize, callVars, served, playerComc, written, procVars, restVars>>

\* _checkForClientInput() says no: _handlePendingClientInputs returns.  idle
\* and pumpEvents check the invariant and return, a has* query returns, and
\* _idleUntil goes round its loop.
InputsHandled ==
    /\ pc = "drain"
    /\ ~CheckForClientInput(stdin)
    /\ LET t  == targetPendingCommands
           s1 == CheckInvariants(Here, t)
       IN  IF op \in {"idle", "pumpEvents"}
           THEN Return(op, s1) /\ UNCHANGED <<inputVars, result>>
           ELSE IF op \in HasQueries
           THEN /\ Return(op, Here)
                /\ result' = <<Len(QueueOf(op)) > 0>>
                /\ UNCHANGED inputVars
           ELSE /\ ReturnOrWait(op, IdleUntilOn(op, s1, t))
                /\ Deliver(op, IdleUntilOn(op, s1, t))
    /\ UNCHANGED <<targetPendingCommands, nextId, maxQueueSize, envVars,
                   requestType, procVars, restVars>>

(***************************************************************************)
(* The client and the server.                                              *)
(***************************************************************************)
\* The server executes the commands in the order they were sent, and sends a
\* comc after each one that gets one.
ServerExecute ==
    /\ pc # "aborted"
    /\ served < Len(wire)
    /\ served' = served + 1
    /\ stdin' = IF getsComc(wire[served + 1])
                THEN Append(stdin, WatchComc) ELSE stdin
    /\ UNCHANGED <<trackerVars, scriptVars, playerComc, written, inputVars, procVars, restVars>>

\* The player executes a command of their own: its comc reaches the script.
PlayerCommand ==
    /\ pc # "aborted"
    /\ playerComc < MaxPlayerComc
    /\ playerComc' = playerComc + 1
    /\ stdin' = Append(stdin, WatchComc)
    /\ UNCHANGED <<trackerVars, scriptVars, served, written, inputVars, procVars, restVars>>

\* The lines other than "watch comc" that the client has written so far.
NumOtherInputs ==
    Cardinality({i \in 1..Len(stdin) : stdin[i] # WatchComc})
        + Len(pendingScripttells) + Len(pendingMiscInputs)

\* The client writes a line of another kind, in a run with at most max of them.
ClientWrites(msg, max) ==
    /\ pc # "aborted"
    /\ written < max
    /\ stdin' = Append(stdin, msg)
    /\ written' = written + 1
    /\ UNCHANGED <<trackerVars, scriptVars, served, playerComc, inputVars,
                   procVars, restVars>>

\* The client passes on a scripttell of the player, or writes another line.
ClientLine(msg) ==
    /\ pc # "aborted"
    /\ NumOtherInputs < MaxOtherInputs
    /\ stdin' = Append(stdin, msg)
    /\ UNCHANGED <<trackerVars, scriptVars, served, playerComc, written,
                   inputVars, procVars, restVars>>

ScriptCall ==
    \/ \E isSpecial \in BOOLEAN : QueueCommand(isSpecial)
    \/ \E isSpecial \in BOOLEAN : ExecCommand(isSpecial)
    \/ FlushCommands
    \/ \E n \in 0..MaxTarget : SetTargetPendingCommands(n)
    \/ DropAllQueuedCommands
    \/ \E tmo \in {"None", "finite"} : Idle(tmo)
    \/ PumpEvents

ScriptStep == WaitForClientInput \/ HandleClientInput \/ InputsHandled

Environment == ServerExecute \/ PlayerCommand

Next == ScriptCall \/ ScriptStep \/ Environment

Spec == Init /\ [][Next]_vars

(***************************************************************************)
(* A script that keeps the target it was constructed with, drops nothing,  *)
(* and runs while the player issues no commands: every comc the script     *)
(* reads acknowledges one of its own commands.                             *)
(***************************************************************************)
FixedTargetNext ==
    \/ \E isSpecial \in BOOLEAN : BurstQueueCommand(isSpecial)
    \/ FlushCommands
    \/ \E tmo \in {"None", "finite"} : Idle(tmo)
    \/ PumpEvents
    \/ ScriptStep
    \/ ServerExecute

FixedTargetSpec == Init /\ [][FixedTargetNext]_vars

(***************************************************************************)
(* The same script while the player executes commands of their own: a comc *)
(* the script reads may acknowledge a command of the player.               *)
(***************************************************************************)
PlayerTargetNext == FixedTargetNext \/ PlayerCommand

PlayerTargetSpec == Init /\ [][PlayerTargetNext]_vars

(***************************************************************************)
(* A script that keeps its target and uses the operations that block,      *)
(* while the server executes its commands and the client writes lines of   *)
(* other kinds.  The player issues no commands.                            *)
(***************************************************************************)
BlockingNext ==
    \/ \E isSpecial \in BOOLEAN : QueueCommand(isSpecial)
    \/ \E isSpecial \in BOOLEAN, m \in 0..1 : IssueCommand(isSpecial, m)
    \/ \E m \in 0..1 : IssueQueuedCommands(m)
    \/ \E isSpecial \in BOOLEAN : ExecCommand(isSpecial)
    \/ FlushCommands
    \/ Idle("None")
    \/ \E o \in {"waitForScripttell", "waitForMiscInput"} : WaitForInputInQueue(o)
    \/ ScriptStep
    \/ ServerExecute
    \/ \E msg \in {ScripttellLine, MiscLine} : ClientLine(msg)

BlockingSpec == Init /\ [][BlockingNext]_vars

(***************************************************************************)
(* A script constructed with target 0 that uses the operations that block  *)
(* and may change its target.                                              *)
(***************************************************************************)
ZeroTargetInit == Init /\ targetPendingCommands = 0

ZeroTargetNext ==
    \/ \E isSpecial \in BOOLEAN : QueueCommand(isSpecial)
    \/ \E isSpecial \in BOOLEAN : IssueCommand(isSpecial, 0)
    \/ IssueQueuedCommands(0)
    \/ FlushCommands
    \/ \E n \in 0..MaxTarget : SetTargetPendingCommands(n)
    \/ ScriptStep
    \/ ServerExecute
    \/ ClientLine(ScripttellLine)

ZeroTargetSpec == ZeroTargetInit /\ [][ZeroTargetNext]_vars

(***************************************************************************)
(* A script that uses the operations that do not block, while the server   *)
(* executes its commands and the client writes lines of other kinds.       *)
(***************************************************************************)
QueryNext ==
    \/ \E isSpecial \in BOOLEAN : QueueCommand(isSpecial)
    \/ \E n \in 0..MaxTarget : SetTargetPendingCommands(n)
    \/ DropAllQueuedCommands
    \/ PumpEvents
    \/ \E o \in HasQueries : HasInputInQueue(o)
    \/ HandleClientInput
    \/ InputsHandled
    \/ ServerExecute
    \/ \E msg \in {ScripttellLine, MiscLine} : ClientLine(msg)

QuerySpec == Init /\ [][QueryNext]_vars

(***************************************************************************)
(* A script that requests its inventory and handles what has arrived,      *)
(* while the client writes stat, player and item lines, well formed and    *)
(* not.  The script issues no commands.                                    *)
(***************************************************************************)
WellFormedLines ==
    {"watch stats hp 50",
     "request stat hp 50 50 20 20 0 0 999",
     "request stat cmbt 1 2 3 4 5",
     "request stat stats 1 2 3 4 5 6 7",
     "request player 9 Player: Al the Elf",
     "request items inv 42 1 100 16 51 a leather pouch",
     "request items inv end"}

\* Stat blocks and item lines with a wrong number of fields.
WrongArityLines ==
    {"request stat hp 50 50 20 20 0 0",
     "request stat cmbt 1 2 3 4 5 6",
     "request stat stats ",
     "request items inv 1 2 3"}

\* Lines with a word that is not a number where a number belongs, or with
\* the number missing.
NonIntegerLines ==
    {"watch stats hp abc",
     "watch stats food",
     "request stat hp 50 50 x 20 0 0 999",
     "request player x Player: Al",
     "request items inv a 1 100 16 51 x"}

\* Requests and stats that this program does not know.
UnknownLines == {"request foo", "request stat xp 1", "watch stats xp 7", "watch "}

ParseLines == WellFormedLines \cup WrongArityLines \cup NonIntegerLines \cup UnknownLines

ParseInit == Init /\ targetPendingCommands = 1

ParseNext ==
    \/ RequestItemsOfType("inv")
    \/ PumpEvents
    \/ HandleClientInput
    \/ InputsHandled
    \/ \E msg \in ParseLines : ClientWrites(msg, MaxParseLines)

ParseSpec == ParseInit /\ [][ParseNext]_vars

(***************************************************************************)
(* A script that issues commands and handles what has arrived, while the   *)
(* server acknowledges its commands and the client writes lines of every   *)
(* kind the router tells apart.                                            *)
(***************************************************************************)
RoutingLines ==
    {"watch comc 7", "watch stats hp 50", "watch", "request stat cmbt 1 2 3 4 5",
     "request", "scripttell hello", "scripttell", "monitor 1 2"}

RoutingNext ==
    \/ \E isSpecial \in BOOLEAN : QueueCommand(isSpecial)
    \/ PumpEvents
    \/ HandleClientInput
    \/ InputsHandled
    \/ ServerExecute
    \/ \E msg \in RoutingLines : ClientWrites(msg, MaxRoutingLines)

RoutingSpec == ParseInit /\ [][RoutingNext]_vars

(***************************************************************************)
(* A script that requests and gets item lists of two types, while the      *)
(* client writes item lines and end markers, asked for or not.  The script *)
(* issues no commands.                                                     *)
(***************************************************************************)
ItemTypes == {"inv", "on"}

ItemLines ==
    {"request items inv 42 1 100 16 51 a leather pouch",
     "request items inv 43 2 5 0 8 nine silver coins",
     "request items inv end",
     "request items on end"}

ItemNext ==
    \/ \E t \in ItemTypes : RequestItemsOfType(t)
    \/ \E t \in ItemTypes : GetItemsOfType(t)
    \/ PumpEvents
    \/ ScriptStep
    \/ \E msg \in ItemLines : ClientWrites(msg, MaxItemLines)

ItemSpec == ParseInit /\ [][ItemNext]_vars

(***************************************************************************)
(* A script that reads the scripttell and misc channels with has*,         *)
(* getNext* and waitFor*, while the client writes scripttells and other    *)
(* lines.                                                                  *)
(***************************************************************************)
WaitForOps == {"waitForScripttell", "waitForMiscInput"}

ChannelLines == {"scripttell hello", "scripttell world", "monitor 1 2"}

ChannelNext ==
    \/ \E o \in HasQueries : HasInputInQueue(o)
    \/ \E o \in GetNextOps : GetNextInputFromQueue(o)
    \/ \E o \in WaitForOps : WaitForInputInQueue(o)
    \/ ScriptStep
    \/ \E msg \in ChannelLines : ClientWrites(msg, MaxChannelLines)

ChannelSpec == ParseInit /\ [][ChannelNext]_vars

(***************************************************************************)
(* A script that watches the player's stats, while the client answers the  *)
(* requests with stat blocks and reports single stats that change.         *)
(***************************************************************************)
StatLines ==
    {"request stat hp 50 50 20 20 0 0 999",
     "request stat hp 48 50 15 20 3 7 998",
     "request stat cmbt 1 2 3 4 5",
     "request stat stats 1 2 3 4 5 6 7",
     "watch stats hp 49"}

StatNext ==
    \/ \E waitForInitialValues \in BOOLEAN : WatchStats(waitForInitialValues)
    \/ PumpEvents
    \/ ScriptStep
    \/ \E msg \in StatLines : ClientWrites(msg, MaxStatLines)

StatSpec == ParseInit /\ [][StatNext]_vars

(***************************************************************************)
(* A script that constructs commands and has them encoded for the wire.    *)
(***************************************************************************)
CommandStrings ==
    {"north", "stay", "use_skill praying", "mark 5", "apply 5", "move 0 5 1"}

Counts == {None} \cup {<<c>> : c \in 0..MaxCount}

\* Command(commandString, count=count, isSpecial=isSpecial)
NewCommand(commandString, count, isSpecial) ==
    /\ pc = "ready"
    /\ object' = CommandObject(commandString, count, isSpecial)
    /\ result' = None
    /\ UNCHANGED <<handlerVars, legacyVars>>
    /\ UNCHANGED <<trackerVars, envVars, inputVars, procVars, op, pc, timeout,
                   returned, failed, nextId, maxQueueSize, requestType>>

\* command.encode(), as _sendCommand calls it.
Encode ==
    /\ pc = "ready"
    /\ object # None
    /\ result' = <<encode(object)>>
    /\ UNCHANGED <<handlerVars, legacyVars>>
    /\ UNCHANGED <<trackerVars, envVars, inputVars, procVars, objectVars, op, pc,
                   timeout, returned, failed, nextId, maxQueueSize, requestType>>

EncodeNext ==
    \/ \E commandString \in CommandStrings, count \in Counts, isSpecial \in BOOLEAN :
           NewCommand(commandString, count, isSpecial)
    \/ Encode

EncodeSpec == ParseInit /\ [][EncodeNext]_vars

(***************************************************************************)
(* InputHandler: a thread that reads sys.stdin line by line and puts the   *)
(* lines on a queue.Queue, and the consumer that takes them from it.  Each *)
(* operation on the queue is atomic (the queue's mutex).                   *)
(***************************************************************************)
\* The lines written to the script's stdin in this model, as readline()
\* returns them.
RawLines == {"watch comc\n", "scripttell hi\n", "\n"}

\* str.rstrip(chars) for one character.
RECURSIVE rstrip(_, _)
rstrip(s, ch) ==
    IF Len(s) > 0 /\ SubSeq(s, Len(s), Len(s)) = ch
    THEN rstrip(SubSeq(s, 1, Len(s) - 1), ch)
    ELSE s

\* Mutant: the queue hands out the newest line first.
putFirst(q, item) == <<item>> \o q

\* queue.Queue.put on the unbounded queue.
put(q, item) == Append(q, item)

\* The client writes a line to the script's stdin.
StdinWrite(raw) ==
    /\ Len(typed) < MaxHandlerLines
    /\ pipe' = Append(pipe, raw)
    /\ typed' = Append(typed, raw)
    /\ UNCHANGED <<readerPc, held, inputQueue, getting, got, handed, available>>

\* _doInputThread: sys.stdin.readline().rstrip("\n"); readline blocks while
\* no line has been written.
ReaderReadline ==
    /\ readerPc = "readline"
    /\ pipe # <<>>
    /\ held' = <<rstrip(Head(pipe), "\n")>>
    /\ pipe' = Tail(pipe)
    /\ readerPc' = "put"
    /\ UNCHANGED <<typed, inputQueue, getting, got, handed, available>>

\* _doInputThread: self.inputQueue.put(...), and back to the top of the loop.
ReaderPut ==
    /\ readerPc = "put"
    /\ inputQueue' = put(inputQueue, held[1])
    /\ held' = None
    /\ readerPc' = "readline"
    /\ available' = (available \/ getting # "none")
    /\ UNCHANGED <<pipe, typed, getting, got, handed>>

\* The consumer takes the oldest line from the queue and returns it.
TakeLine ==
    /\ got' = <<Head(inputQueue)>>
    /\ handed' = Append(handed, Head(inputQueue))
    /\ inputQueue' = Tail(inputQueue)

\* checkForInput: inputQueue.get(block=False), None on queue.Empty.
CheckForInput ==
    /\ getting = "none"
    /\ IF inputQueue # <<>> THEN TakeLine
       ELSE got' = None /\ UNCHANGED <<handed, inputQueue>>
    /\ UNCHANGED <<pipe, typed, readerPc, held, getting, available>>

\* waitForInput(timeout): inputQueue.get(block=True, timeout=timeout), up to
\* the point where it returns a line or starts to wait for one.
WaitForInput(tmo) ==
    /\ getting = "none"
    /\ available' = (inputQueue # <<>>)
    /\ IF inputQueue # <<>> THEN TakeLine /\ getting' = "none"
       ELSE getting' = tmo /\ UNCHANGED <<got, handed, inputQueue>>
    /\ UNCHANGED <<pipe, typed, readerPc, held>>

\* The waiting get() finds a line in the queue and returns it.
WaitReturnsLine ==
    /\ getting # "none"
    /\ inputQueue # <<>>
    /\ TakeLine
    /\ getting' = "none"
    /\ UNCHANGED <<pipe, typed, readerPc, held, available>>

\* The timeout of the waiting get() passes with the queue still empty:
\* queue.Empty, and waitForInput asserts that it was given a timeout.
WaitTimesOut ==
    /\ getting = "timed"
    /\ inputQueue = <<>>
    /\ got' = None
    /\ getting' = "none"
    /\ UNCHANGED <<pipe, typed, readerPc, held, inputQueue, handed, available>>

HandlerStep ==
    \/ \E raw \in RawLines : StdinWrite(raw)
    \/ ReaderReadline
    \/ ReaderPut
    \/ CheckForInput
    \/ \E tmo \in {"block", "timed"} : WaitForInput(tmo)
    \/ WaitReturnsLine
    \/ WaitTimesOut

HandlerNext ==
    /\ HandlerStep
    /\ UNCHANGED <<trackerVars, scriptVars, envVars, inputVars, callVars,
                   procVars, objectVars, legacyVars>>

HandlerSpec == ParseInit /\ [][HandlerNext]_vars

(***************************************************************************)
(* The two trackers side by side: a script that issues ordinary commands   *)
(* only and keeps its target makes every call on both objects, and both    *)
(* handle the same "watch comc" lines.                                     *)
(***************************************************************************)
\* The text of the command the script queues with its id-th call.
CommandString(cmd) == IF IsNoOp(cmd) THEN "stay" ELSE "say " \o str(cmd.id)

\* The line the final tracker writes for cmd: Command.encode.
WireLine(cmd) == encode(CommandObject(CommandString(cmd), None, cmd.isSpecial))

\* Both objects after a call that has taken them to st and lg.
CommitBoth(st, lg) ==
    /\ Commit(st)
    /\ legacy' = lg
    /\ pc' = IF st.err # "" \/ lg.failed # "" THEN "aborted" ELSE "ready"
    /\ UNCHANGED <<targetPendingCommands, op, timeout, returned, maxQueueSize,
                   callVars, served, playerComc, written, inputVars, procVars,
                   objectVars, handlerVars>>

\* queueCommand of an ordinary command on both objects.
LockstepQueueCommand ==
    /\ pc = "ready"
    /\ nextId <= MaxLockstepCommands
    /\ LET command == Command(nextId, FALSE)
       IN  CommitBoth(QueueCommandOn(Here, command, targetPendingCommands),
                      LegacyQueueCommand(legacy, CommandString(command), None))
    /\ nextId' = nextId + 1
    /\ UNCHANGED stdin

\* dropAllQueuedCommands on both objects.
LockstepDropAll ==
    /\ pc = "ready"
    /\ commandQueue # <<>>
    /\ CommitBoth(DropAllOn(Here, targetPendingCommands),
                  LegacyDropAllQueuedCommands(legacy))
    /\ UNCHANGED <<nextId, stdin>>

\* pumpEvents on both objects when one "watch comc" line has arrived.
LockstepHandleComc ==
    /\ pc = "ready"
    /\ stdin # <<>>
    /\ startswith(Head(stdin), WatchComc)
    /\ CommitBoth(HandleComc(Here, targetPendingCommands),
                  LegacyHandleComc(legacy))
    /\ stdin' = Tail(stdin)
    /\ UNCHANGED nextId

LockstepNext == LockstepQueueCommand \/ LockstepDropAll \/ LockstepHandleComc \/ ServerExecute

LockstepSpec == Init /\ [][LockstepNext]_vars

(***************************************************************************)
(* A script that constructs an item and reads and sets its flags.          *)
(***************************************************************************)
IsItem(o) == o # None /\ "flags" \in DOMAIN o

\* Item(tag, num, weight, flags, clientType, name)
NewItem(flags) ==
    /\ pc = "ready"
    /\ object' = Item(42, 1, 100, flags, 51, "a leather pouch")
    /\ result' = None
    /\ UNCHANGED <<handlerVars, legacyVars>>
    /\ UNCHANGED <<trackerVars, envVars, inputVars, procVars, op, pc, timeout,
                   returned, failed, nextId, maxQueueSize, requestType>>

\* item.<name>, one of the flag properties
GetFlag(name) ==
    /\ pc = "ready"
    /\ IsItem(object)
    /\ result' = <<flagBit(object, FlagBits[name])>>
    /\ UNCHANGED <<handlerVars, legacyVars>>
    /\ UNCHANGED <<trackerVars, envVars, inputVars, procVars, objectVars, op, pc,
                   timeout, returned, failed, nextId, maxQueueSize, requestType>>

\* item.<name> = val
SetFlag(name, val) ==
    /\ pc = "ready"
    /\ IsItem(object)
    /\ object' = setFlagBit(object, FlagBits[name], val)
    /\ result' = None
    /\ UNCHANGED <<handlerVars, legacyVars>>
    /\ UNCHANGED <<trackerVars, envVars, inputVars, procVars, op, pc, timeout,
                   returned, failed, nextId, maxQueueSize, requestType>>

FlagNext ==
    \/ \E flags \in {0, 16 + 256, MaxFlags} : NewItem(flags)
    \/ \E name \in DOMAIN FlagBits : GetFlag(name)
    \/ \E name \in DOMAIN FlagBits, val \in BOOLEAN : SetFlag(name, val)

FlagSpec == ParseInit /\ [][FlagNext]_vars

(***************************************************************************)
(* The constructor.  A process starts without a ClientInterfacer and calls *)
(* ClientInterfacer(targetPendingCommands) any number of times; a call     *)
(* that raises leaves the script running (it may catch the exception).     *)
(* A call that does not raise writes its two requests and waits, inside    *)
(* idle(), until the player's tag is known.                                *)
(***************************************************************************)
\* Mutant: the test lets a second object through.
TooManyOffByOne(n) == n > 2

\* The test on the class's counter, after it was incremented.
TooMany(n) == n > 1

ProcessInit ==
    /\ commandQueue = <<>>
    /\ pendingCommands = <<>>
    /\ targetPendingCommands = 0
    /\ wire = <<>>
    /\ stdin = <<>>
    /\ served = 0
    /\ op = "none"
    /\ pc = "ready"
    /\ timeout = "None"
    /\ returned = ""
    /\ failed = ""
    /\ lastPump = NoPump
    /\ nextId = 1
    /\ playerComc = 0
    /\ maxQueueSize = 0
    /\ pendingScripttells = <<>>
    /\ pendingMiscInputs = <<>>
    /\ playerInfo = PlayerInfo
    /\ itemLists = <<>>
    /\ itemListsInProgress = <<>>
    /\ sentToClient = <<>>
    /\ requestType = ""
    /\ result = None
    /\ written = 0
    /\ numCreated = 0
    /\ instances = 0
    /\ platform \in {"Linux", "Windows"}
    /\ object = None
    /\ InputHandlerInit
    /\ legacy = LegacyObject(targetPendingCommands)

\* Mutant: the acknowledgements are not asked for.
HandshakeWithoutWatch == <<"request player">>

\* What the constructor writes to the client: lines 176 and 181.
Handshake == <<WatchComc, "request player">>

\* The object as lines 119-171 set it up.
NewObject ==
    Tracker(<<>>, <<>>)
        @@ [maxQueueSize |-> maxQueueSize,
            scripttells  |-> <<>>,
            miscInputs   |-> <<>>,
            playerInfo   |-> PlayerInfo,
            itemLists    |-> <<>>,
            itemListsInProgress |-> <<>>,
            requestType  |-> requestType,
            sent         |-> Handshake]

\* ClientInterfacer(targetPendingCommands=n) up to the point where it raises
\* or where the idle() of its _idleUntil starts to wait for the player's tag.
Construct(n) ==
    /\ pc = "ready"
    /\ numCreated < MaxNumCreated
    /\ IF platform # "Linux"
       THEN /\ failed' = "NotImplementedError"
            /\ UNCHANGED <<numCreated, instances, commandQueue, pendingCommands,
                           targetPendingCommands, inputVars, wire, lastPump,
                           op, pc, timeout, returned>>
       ELSE /\ numCreated' = numCreated + 1
            /\ IF TooMany(numCreated + 1)
               THEN /\ failed' = "RuntimeError"
                    /\ UNCHANGED <<instances, commandQueue, pendingCommands,
                                   targetPendingCommands, inputVars, wire,
                                   lastPump, op, pc, timeout, returned>>
               ELSE /\ instances' = instances + 1
                    /\ targetPendingCommands' = n
                    /\ LET st == IdleUntilOn("__init__", NewObject, n)
                       IN  ReturnOrWait("__init__", st) /\ CommitInputs(st)
    /\ UNCHANGED <<envVars, nextId, maxQueueSize, callVars, platform, restVars>>

\* The lines the client writes while the script starts up.
StartupLines == {PlayerLine, ScripttellLine}

ProcessNext ==
    \/ \E n \in 0..MaxTarget : Construct(n)
    \/ \E isSpecial \in BOOLEAN : instances >= 1 /\ QueueCommand(isSpecial)
    \/ instances >= 1 /\ PumpEvents
    \/ ScriptStep
    \/ ServerExecute
    \/ \E msg \in StartupLines : ClientWrites(msg, MaxStartupLines)

ProcessSpec == ProcessInit /\ [][ProcessNext]_vars

(***************************************************************************)
(* Properties.                                                             *)
(***************************************************************************)
\* The commands in the queue and on the wire that some queueCommand enqueued.
RealCommands ==
    {commandQueue[i] : i \in 1..Len(commandQueue)}
        \cup {wire[i] : i \in {j \in 1..Len(wire) : ~IsNoOp(wire[j])}}

OnlyOrdinary == \A c \in RealCommands : ~c.isSpecial

OnlySpecial == \A c \in RealCommands : c.isSpecial

\* wire = (the commands popped from the pending commands) \o pendingCommands
NumResolved == Len(wire) - Len(pendingCommands)

\* C1: the pacing invariant.  In every state the script can be in, on exit of
\* every public operation and between the steps of the blocking ones, the
\* lower bound on the pending commands has reached the target or the command
\* queue is empty.
C1_PacingInvariant ==
    \/ BoundPendingCommandsLow(pendingCommands) >= targetPendingCommands
    \/ Len(commandQueue) = 0

\* C1 witness: a comc has been handled, the script is back from the
\* operation, and commands are still queued behind a full set of pending ones.
C1_Witness ==
    /\ pc = "ready"
    /\ targetPendingCommands >= 1
    /\ Len(commandQueue) > 0
    /\ NumResolved > 0

\* C2: for a target of at least 1, right after a _pumpQueue call that sent a
\* command the lower bound on the pending commands is at most max(2, target).
C2_PumpSendsOnlyTheMinimum ==
    (lastPump.ran /\ lastPump.sentAny /\ lastPump.target >= 1)
        => lastPump.lowAfter <= Max(2, lastPump.target)

\* C3, first half: with ordinary commands only and a target N >= 1, after k > N
\* queueCommand calls and before any pending command is resolved, exactly N
\* commands are on the wire and k - N are queued.
C3_Burst ==
    (/\ OnlyOrdinary
     /\ targetPendingCommands >= 1
     /\ NumResolved = 0
     /\ nextId - 1 > targetPendingCommands)
        => /\ Len(wire) = targetPendingCommands
           /\ Len(commandQueue) = (nextId - 1) - targetPendingCommands

\* A step that handles one line of stdin.
HandlesOneLine == pc = "drain" /\ stdin # <<>> /\ stdin' = Tail(stdin)

\* C3, second half: with ordinary commands only and a target N >= 1, handling
\* one comc while the queue is not empty sends exactly one more command.
C3_OneMorePerComc ==
    (/\ HandlesOneLine
     /\ OnlyOrdinary
     /\ targetPendingCommands >= 1
     /\ Len(commandQueue) > 0)
        => /\ Len(wire') = Len(wire) + 1
           /\ Len(commandQueue') = Len(commandQueue) - 1

\* C3: after a burst of k > N ordinary commands exactly N are sent and k - N
\* stay queued, and every comc handled while the queue is not empty sends
\* exactly one more.
C3_BurstThenOnePerComc == [](C3_Burst) /\ [][C3_OneMorePerComc]_vars

\* C4: a _pumpQueue call that starts with no pending commands, a target
\* N >= 1 and a queue of special commands only, longer than max(N - 1, 1),
\* sends the first max(N - 1, 1) of them, then one no-op, then the next one.
C4_NoOpAfterMaxConsecutive ==
    LET N == lastPump.target
        m == IF N - 1 >= 1 THEN N - 1 ELSE 1
        q == lastPump.queue0
        sent == lastPump.sent
    IN  (/\ lastPump.ran
         /\ N >= 1
         /\ lastPump.pending0 = <<>>
         /\ \A i \in 1..Len(q) : q[i].isSpecial
         /\ Len(q) > m)
            => /\ Len(sent) >= m + 2
               /\ \A i \in 1..m : sent[i] = q[i]
               /\ sent[m + 1] = NoOp
               /\ sent[m + 2] = q[m + 1]

\* C4 witness: with target 3, the pump has sent special, special, no-op,
\* special from a queue of special commands, nothing pending before it.
C4_Witness ==
    /\ lastPump.ran
    /\ lastPump.target = 3
    /\ lastPump.pending0 = <<>>
    /\ Len(lastPump.queue0) >= 3
    /\ \A i \in 1..Len(lastPump.queue0) : lastPump.queue0[i].isSpecial
    /\ Len(lastPump.sent) >= 4
    /\ lastPump.sent[3] = NoOp
    /\ lastPump.sent[4].isSpecial

\* C5: with target 2 and special commands only, the wire is special, no-op,
\* special, no-op, ...: the k-th special command enqueued is line 2k - 1 and
\* every line in between is a no-op, so the lines up to the 5th special are
\* special, no-op, special, no-op, special, no-op, special, no-op, special.
C5_NoOpBetweenSpecials ==
    (targetPendingCommands = 2 /\ OnlySpecial)
        => \A i \in 1..Len(wire) :
               IF i % 2 = 1
               THEN wire[i].isSpecial /\ wire[i].id = (i + 1) \div 2
               ELSE wire[i] = NoOp

\* C5 witness: the 5th special command is on the wire, as its 9th line.
C5_Witness ==
    /\ targetPendingCommands = 2
    /\ OnlySpecial
    /\ Len(wire) = 9
    /\ wire[9] = Command(5, TRUE)

\* C6: _pumpQueue injects a no-op only when the command it is about to send
\* gets no comc, no pending command gets a comc, and at least max(target-1, 1)
\* commands are pending.
C6_NoOpOnlyWhenBlind ==
    lastPump.ran =>
        \A r \in lastPump.inj :
            /\ ~r.nextGetsComc
            /\ ~r.pendingGetsComc
            /\ r.numPending >= Max(r.target - 1, 1)

\* C7: a flushCommands call made with a target of at least 1, while the only
\* comcs are those of the script's own commands, never aborts.
C7_FlushNeverAborts ==
    (op = "flushCommands" /\ targetPendingCommands >= 1 /\ playerComc = 0)
        => pc # "aborted"

\* C8: while the only comcs are those of the script's own commands, a command
\* that has left the pending commands has been executed by the server, the
\* last command that left them is one that gets a comc, and when
\* flushCommands returns the server has executed every command sent.
C8_ResolvedMeansExecuted ==
    playerComc = 0 =>
        /\ NumResolved <= served
        /\ NumResolved > 0 => getsComc(wire[NumResolved])
        /\ returned = "flushCommands" => served = Len(wire)

\* C8 witness: flushCommands has returned after special commands, no-ops and
\* ordinary commands were sent.
C8_Witness ==
    /\ playerComc = 0
    /\ returned = "flushCommands"
    /\ \E i \in 1..Len(wire) : wire[i].isSpecial
    /\ \E i \in 1..Len(wire) : IsNoOp(wire[i])
    /\ \E i \in 1..Len(wire) : ~IsNoOp(wire[i]) /\ ~wire[i].isSpecial

\* C9: when flushCommands returns, the command queue and the pending commands
\* are empty.
C9_FlushPostcondition ==
    returned = "flushCommands" =>
        /\ pc = "ready"
        /\ Len(commandQueue) = 0
        /\ Len(pendingCommands) = 0

\* C9 witness: flushCommands has returned after a special command was sent
\* behind a no-op, so that the lower bound reached 0 before the pending
\* commands were empty.
C9_Witness ==
    /\ returned = "flushCommands"
    /\ \E i \in 2..Len(wire) : IsNoOp(wire[i - 1]) /\ wire[i].isSpecial

\* C10: the commands the script enqueued appear on the wire in the order of
\* their queueCommand calls, and every queued command was enqueued after every
\* command on the wire.
C10_FifoDispatch ==
    /\ \A i, j \in 1..Len(wire) :
           (i < j /\ ~IsNoOp(wire[i]) /\ ~IsNoOp(wire[j]))
               => wire[i].id < wire[j].id
    /\ \A i \in 1..Len(wire), j \in 1..Len(commandQueue) :
           wire[i].id < commandQueue[j].id
    /\ \A i, j \in 1..Len(commandQueue) :
           i < j => commandQueue[i].id < commandQueue[j].id

\* C10 witness: two enqueued commands are on the wire with a no-op between
\* them, and a third is still queued.
C10_Witness ==
    /\ Len(commandQueue) > 0
    /\ \E i \in 2..(Len(wire) - 1) :
           IsNoOp(wire[i]) /\ ~IsNoOp(wire[i - 1]) /\ ~IsNoOp(wire[i + 1])

IsPrefix(a, b) == Len(a) <= Len(b) /\ SubSeq(b, 1, Len(a)) = a

Elements(a) == {a[i] : i \in 1..Len(a)}

\* The lines a step adds to the wire.
NewOnWire == SubSeq(wire', Len(wire) + 1, Len(wire'))

\* A step that handles one "watch comc" line.
HandlesComc == HandlesOneLine /\ Head(stdin) = WatchComc

\* C11, in every state: no command is on the wire twice, no command is both
\* queued and on the wire, and the pending commands are the last lines of the
\* wire (Queued, then Pending, then Done).
C11_OnePlace ==
    /\ \A i, j \in 1..Len(wire) :
           (i < j /\ ~IsNoOp(wire[i])) => wire[i] # wire[j]
    /\ Elements(commandQueue) \cap Elements(wire) = {}
    /\ Len(pendingCommands) <= Len(wire)
    /\ pendingCommands = SubSeq(wire, NumResolved + 1, Len(wire))

\* C11, in every step: the wire only grows; the pending commands lose
\* commands at the front only, and only when a comc is handled; they gain
\* exactly the commands the step writes; no command enters the queue except
\* the one a queueCommand call enqueues; and a command leaves the queue for
\* the wire or, unsent, in a dropAllQueuedCommands call.
C11_OneWay ==
    /\ IsPrefix(wire, wire')
    /\ \E k \in 0..Len(pendingCommands) :
           /\ pendingCommands' =
                  SubSeq(pendingCommands, k + 1, Len(pendingCommands))
                      \o NewOnWire
           /\ k > 0 => HandlesComc
    /\ \A c \in Elements(commandQueue') :
           c \in Elements(commandQueue) \/ (c.id = nextId /\ nextId' = nextId + 1)
    /\ \A c \in Elements(commandQueue) \ Elements(commandQueue') :
           c \in Elements(NewOnWire) \/ DropAllQueuedCommands

\* C11: the life of a command is one-way.  It is written to the wire at most
\* once, goes from the queue to the pending commands to done, leaves the
\* pending commands only when a comc is handled, never returns to the queue,
\* and leaves the queue unsent only through dropAllQueuedCommands.
C11_LifecycleOneWay == [](C11_OnePlace) /\ [][C11_OneWay]_vars

\* C11 witness: one command is done, one is pending and one is queued.
C11_Witness ==
    /\ NumResolved >= 1
    /\ ~IsNoOp(wire[1])
    /\ \E i \in 1..Len(pendingCommands) : ~IsNoOp(pendingCommands[i])
    /\ Len(commandQueue) >= 1

\* The commands that were enqueued and are neither queued nor on the wire.
Dropped ==
    {id \in 1..(nextId - 1) :
        \A c \in Elements(commandQueue) \cup Elements(wire) : c.id # id}

\* C12, for a step that is a dropAllQueuedCommands call: the call returns
\* without raising, the queue is empty after it, nothing is written to the
\* wire, and the pending commands, the target, stdin and the queues of
\* scripttells and other inputs are as before; a call made with the queue
\* already empty, as a second call in a row is, changes none of them.
C12_DropStep ==
    DropAllQueuedCommands =>
        /\ pc' = "ready" /\ failed' = ""
        /\ commandQueue' = <<>>
        /\ wire' = wire
        /\ UNCHANGED <<pendingCommands, targetPendingCommands, stdin, inputVars>>
        /\ commandQueue = <<>> =>
               /\ UNCHANGED <<commandQueue, pendingCommands, wire,
                              targetPendingCommands, envVars, inputVars>>
               /\ DropAllOn(Here, targetPendingCommands).err = ""

\* C12: dropAllQueuedCommands empties the queue, sends nothing, leaves the
\* pending commands, the target and the inbound channels alone, and is
\* idempotent.
C12_DropAllFrame == [][C12_DropStep]_vars

\* C12 witness: commands were dropped while others were pending and a
\* scripttell was waiting in its queue.
C12_Witness ==
    /\ pc = "ready"
    /\ commandQueue = <<>>
    /\ Dropped # {}
    /\ pendingCommands # <<>>
    /\ pendingScripttells # <<>>

\* The commands of a sequence that some queueCommand enqueued, in order.
RECURSIVE Real(_)
Real(a) ==
    IF a = <<>> THEN <<>>
    ELSE IF IsNoOp(Head(a)) THEN Real(Tail(a))
    ELSE <<Head(a)>> \o Real(Tail(a))

\* The pending commands as they were before the last command of p was sent,
\* together with the no-op sent for it if there was one among the new lines.
BeforeLastSent(p, new) ==
    LET n == Len(p)
    IN  IF Len(new) >= 2 /\ IsNoOp(new[Len(new) - 1])
        THEN SubSeq(p, 1, n - 2) ELSE SubSeq(p, 1, n - 1)

\* C13, for a step that is a setTargetPendingCommands(n) call: no pending
\* command is removed and the call does not wait; with n below the target
\* nothing is written and queue and pending commands are as before; with n
\* above it the call returns having sent the oldest queued commands, in
\* order, up to the first point where the pacing invariant holds for n.
C13_SetTargetStep ==
    \A n \in 0..MaxTarget :
        SetTargetPendingCommands(n) =>
            /\ IsPrefix(pendingCommands, pendingCommands')
            /\ pc' # "wait"
            /\ targetPendingCommands' = n
            /\ n < targetPendingCommands =>
                   /\ wire' = wire
                   /\ UNCHANGED <<commandQueue, pendingCommands>>
            /\ n > targetPendingCommands =>
                   /\ failed' = ""
                   /\ commandQueue = Real(NewOnWire) \o commandQueue'
                   /\ \/ BoundPendingCommandsLow(pendingCommands') >= n
                      \/ Len(commandQueue') = 0
                   /\ NewOnWire # <<>> =>
                          BoundPendingCommandsLow(
                              BeforeLastSent(pendingCommands', NewOnWire)) < n

\* C13: setTargetPendingCommands never removes a pending command and never
\* blocks; lowering the target changes only the target; raising it sends the
\* oldest queued commands until the pacing invariant holds for the new one.
C13_SetTargetFrame == [][C13_SetTargetStep]_vars

\* How many pending commands one comc removes: those up to and including the
\* first that gets a comc, or all of them when none does.
NumAcknowledged(p) ==
    LET ack == {i \in 1..Len(p) : getsComc(p[i])}
    IN  IF ack = {} THEN Len(p)
        ELSE CHOOSE i \in ack : \A j \in ack : i <= j

\* C14, for a step that handles one "watch comc" line: with no pending
\* commands nothing changes and nothing is written; otherwise the leading
\* commands that get no comc and the first one that gets one are removed (all
\* of them when none gets one), the rest stay in order, and _pumpQueue then
\* runs on that rest and on the queue: what it writes is appended.
C14_AckStep ==
    HandlesComc =>
        IF pendingCommands = <<>>
        THEN UNCHANGED <<commandQueue, pendingCommands, wire,
                         targetPendingCommands, failed, pc>>
        ELSE LET k    == NumAcknowledged(pendingCommands)
                 rest == SubSeq(pendingCommands, k + 1, Len(pendingCommands))
             IN  /\ pendingCommands' = rest \o NewOnWire
                 /\ lastPump'.ran
                 /\ lastPump'.pending0 = rest
                 /\ lastPump'.queue0 = commandQueue
                 /\ lastPump'.sent = NewOnWire

\* C14: one acknowledgement removes the leading pending commands that get no
\* comc and exactly one that gets one, then pumps the queue; it removes every
\* pending command when none gets a comc, and is ignored when none is pending.
C14_AckProcessing == [][C14_AckStep]_vars

\* C14 witness: with no comc but those of the script's commands, a special
\* command and the acknowledgeable command behind it have left the pending
\* commands together, and the pump has run on the commands that stayed.
C14_Witness ==
    /\ playerComc = 0
    /\ pc = "drain"
    /\ NumResolved >= 2
    /\ wire[NumResolved - 1].isSpecial
    /\ getsComc(wire[NumResolved])
    /\ lastPump.ran
    /\ lastPump.pending0 # <<>>

\* The steps of an idle(timeout) call with a finite timeout during which no
\* line is there to read: the call up to its wait, the wait running out, and
\* the return after _handlePendingClientInputs has found nothing.
IdleCallNoInput == Idle("finite") /\ stdin = <<>>

IdleTimesOut ==
    /\ op = "idle" /\ timeout = "finite" /\ stdin = <<>>
    /\ WaitForClientInput \/ InputsHandled

\* What such a step must leave alone whatever the pending commands are.
IdleLeavesAlone ==
    /\ failed' = ""
    /\ pc' # "aborted"
    /\ UNCHANGED <<commandQueue, targetPendingCommands, stdin, inputVars>>

\* C15 as stated: idle(timeout) that times out with no input returns without
\* raising and without any side effect, whatever state it is called in:
\* no line is consumed or routed, nothing is written to the wire, and the
\* queue, the pending commands and the inbound channels are unchanged.
C15_IdleTimeoutNoEffect ==
    [][(IdleCallNoInput \/ IdleTimesOut) =>
           (IdleLeavesAlone /\ UNCHANGED <<wire, pendingCommands>>)]_vars

\* C15, amended: idle(timeout) that times out with no input returns without
\* raising, consumes and routes no line and leaves the queue, the target and
\* the inbound channels unchanged; it writes nothing and leaves the pending
\* commands unchanged when they are empty or one of them gets a comc, and
\* otherwise writes exactly one no-op, on entry, which it appends to them.
C15_IdleTimeoutSendsAtMostNoOp ==
    [][/\ IdleCallNoInput =>
              /\ IdleLeavesAlone
              /\ IF Len(pendingCommands) = 0 \/ AnyGetsComc(pendingCommands)
                 THEN UNCHANGED <<wire, pendingCommands>>
                 ELSE /\ wire' = Append(wire, NoOp)
                      /\ pendingCommands' = Append(pendingCommands, NoOp)
       /\ IdleTimesOut =>
              (IdleLeavesAlone /\ UNCHANGED <<wire, pendingCommands>>)]_vars

\* C15 witness: idle(timeout) has timed out in a run in which the server has
\* not executed anything and the player has done nothing, so that no line
\* ever arrived; on entry it sent a no-op behind a pending special command.
C15_Witness ==
    /\ op = "idle" /\ timeout = "finite" /\ pc = "drain"
    /\ served = 0 /\ playerComc = 0 /\ stdin = <<>>
    /\ Len(pendingCommands) >= 2
    /\ pendingCommands[Len(pendingCommands) - 1].isSpecial
    /\ pendingCommands[Len(pendingCommands)] = NoOp
    /\ \A i \in 1..(Len(pendingCommands) - 1) : pendingCommands[i].isSpecial

\* C16: whenever the script is blocked waiting for input inside idle(),
\* called directly or by issueCommand, issueQueuedCommands, execCommand,
\* flushCommands or a waitFor* operation, no command is pending or one of
\* the pending commands is one that gets a comc.
C16_NeverWaitsBlind ==
    pc = "wait" =>
        \/ pendingCommands = <<>>
        \/ \E i \in 1..Len(pendingCommands) : ~pendingCommands[i].isSpecial

\* C16 witness: waitForScripttell is blocked behind a pending special
\* command, with the no-op that idle() sent before waiting.
C16_Witness ==
    /\ pc = "wait"
    /\ op = "waitForScripttell"
    /\ pendingCommands = <<Command(1, TRUE), NoOp>>

\* C17: _canWaitOnPendingCommands is true exactly when no command is pending
\* or a pending command gets a comc.  _ensureCanWaitOnPendingCommands, run
\* in any state the object can be in, does not raise and leaves the queue
\* alone; it writes nothing when that is true, and writes exactly one no-op,
\* a command that gets a comc, and appends it to the pending commands when
\* it is false; afterwards _canWaitOnPendingCommands is true.
C17_EnsureCanWait ==
    LET p    == pendingCommands
        safe == p = <<>> \/ \E i \in 1..Len(p) : ~p[i].isSpecial
        st   == EnsureCanWaitOnPendingCommands(Here)
    IN  /\ CanWaitOnPendingCommands(p) <=> safe
        /\ st.err = ""
        /\ st.q = commandQueue
        /\ safe => (st.out = <<>> /\ st.p = p)
        /\ ~safe =>
               /\ st.out = <<NoOp>>
               /\ st.p = Append(p, NoOp)
               /\ getsComc(NoOp)
        /\ CanWaitOnPendingCommands(st.p)
        /\ st.p = <<>> \/ \E i \in 1..Len(st.p) : ~st.p[i].isSpecial

\* C17 witness: idle() has sent the no-op behind a pending special command
\* while another command was queued (the target is 0), and nothing else is
\* on the wire.
C17_Witness ==
    /\ pc = "wait"
    /\ targetPendingCommands = 0
    /\ Len(commandQueue) > 0
    /\ Len(pendingCommands) = 2
    /\ pendingCommands[1].isSpecial
    /\ pendingCommands[2] = NoOp
    /\ wire = pendingCommands

\* The operations whose names promise not to block.
NonBlockingOps ==
    {"queueCommand", "pumpEvents", "setTargetPendingCommands",
     "dropAllQueuedCommands"} \cup HasQueries

\* A step of the client or the server: a line is added to stdin, or the
\* server executes a command.
EnvironmentStep ==
    \/ served' # served
    \/ Len(stdin') > Len(stdin)

\* C18, in every state: an operation that promises not to block is never
\* waiting for input, and while it handles the lines that have arrived it
\* always has a step of its own to take: read the next of them, or return.
C18_NeverWaits ==
    op \in NonBlockingOps =>
        /\ pc # "wait"
        /\ pc = "drain" =>
               \/ CheckForClientInput(stdin) /\ stdin # <<>>
               \/ ~CheckForClientInput(stdin)

\* C18, in every step such an operation takes while it handles lines: it
\* comes to its end (it returns, or raises), or it consumes one line that
\* had arrived; so it ends after at most as many steps as there are lines,
\* whether or not another line ever arrives.
C18_ConsumesOrReturns ==
    (op \in NonBlockingOps /\ pc = "drain" /\ ~EnvironmentStep) =>
        \/ pc' \in {"ready", "aborted"}
        \/ stdin # <<>> /\ stdin' = Tail(stdin) /\ pc' = "drain"

ComcToCome ==
    \/ \E i \in 1..Len(stdin) : stdin[i] = WatchComc
    \/ \E i \in (served + 1)..Len(wire) : getsComc(wire[i])

\* C19, when issueCommand or issueQueuedCommands returns: the queue holds at
\* most maxQueueSize commands.
C19_ReturnsWithShortQueue ==
    returned = "issueQueuedCommands" =>
        /\ pc = "ready"
        /\ Len(commandQueue) <= maxQueueSize

\* C19, while issueCommand or issueQueuedCommands has not returned, with a
\* target of at least 1: the call has not raised, and when it waits for
\* input a comc is still to come, so that under a fair server it goes on
\* until it returns.
C19_GoesOn ==
    (op = "issueQueuedCommands" /\ targetPendingCommands >= 1) =>
        /\ pc # "aborted"
        /\ (pc = "wait" /\ stdin = <<>>) => ComcToCome

\* C19: issueCommand(command, maxQueueSize) and
\* issueQueuedCommands(maxQueueSize) return only when the queue holds at
\* most maxQueueSize commands, and for every target of at least 1 they do
\* return when the server executes every command it is sent.
C19_IssueReturns == C19_ReturnsWithShortQueue /\ C19_GoesOn

\* C20, for a step that is a constructor call made after an earlier call
\* was counted: it raises, no object comes of it, nothing is written to the
\* wire, and the state of the object that exists is as before.
C20_LaterCallFails ==
    \A n \in 0..MaxTarget :
        (Construct(n) /\ numCreated >= 1) =>
            /\ failed' = "RuntimeError"
            /\ instances' = instances
            /\ wire' = wire
            /\ UNCHANGED <<commandQueue, pendingCommands, targetPendingCommands>>

MalformedLines ==
    WrongArityLines \cup NonIntegerLines \cup {"request foo", "request stat xp 1"}

\* A step that writes exactly one "draw" line to stdout: a logged report.
Reports(level) ==
    /\ Len(sentToClient') = Len(sentToClient) + 1
    /\ SubSeq(sentToClient', 1, Len(sentToClient)) = sentToClient
    /\ startswith(sentToClient'[Len(sentToClient')], "draw " \o level)

\* A step that leaves PlayerInfo, the item lists and the channels alone.
DiscardsLine ==
    UNCHANGED <<playerInfo, itemLists, itemListsInProgress, pendingScripttells,
                pendingMiscInputs>>

\* C21: no inbound line crashes the script: the step that routes a line never
\* raises, so the loop goes on to the next line, and when the line does not
\* parse the failure is logged and the line is discarded.
C21_NoLineCrashes ==
    [][HandlesOneLine =>
           /\ failed' = ""
           /\ pc' = "drain"
           /\ Head(stdin) \in MalformedLines =>
                  /\ Reports("3 ERROR") \/ Reports("4 WARNING")
                  /\ DiscardsLine]_vars

\* An item line of a type for which no request is in progress.
Unexpected(msg) ==
    /\ startswith(msg, "request items ")
    /\ partition(From(msg, Len("request items ") + 1))[1]
           \notin DOMAIN itemListsInProgress

\* C22: a stat block with a number of fields other than 7 (hp), 5 (cmbt),
\* 7 (stats), and an item line of a request in progress that does not split
\* into 6 fields, are reported as errors and dropped: PlayerInfo with its
\* have* flags, the item lists in progress and the completed ones stay as they
\* are, and the loop goes on to the next line.
C22_ArityStep ==
    (HandlesOneLine /\ Head(stdin) \in WrongArityLines /\ ~Unexpected(Head(stdin)))
        => /\ Reports("3 ERROR")
           /\ DiscardsLine
           /\ failed' = ""
           /\ pc' = "drain"

C22_ArityMismatchDropped == [][C22_ArityStep]_vars

\* C22 witness: a stat block with 6 fields and an item line with 3 fields,
\* the latter while the inventory was being requested, have been reported.
C22_Witness ==
    /\ \E i \in 1..Len(sentToClient) :
           sentToClient[i] = "draw 3 ERROR: \"request stat hp\": got 6 items, expected 7."
    /\ \E i \in 1..Len(sentToClient) :
           sentToClient[i] = "draw 3 ERROR: \"request items inv\": got 3 fields, expected 6."
    /\ "inv" \in DOMAIN itemListsInProgress
    /\ failed = ""

\* The route of a line, by the priority of _handleClientInput's tests.
RouteOf(msg) ==
    IF startswith(msg, "watch comc") THEN "comc"
    ELSE IF startswith(msg, "watch ") THEN "watch"
    ELSE IF startswith(msg, "request ") THEN "request"
    ELSE IF startswith(msg, "scripttell ") THEN "scripttell"
    ELSE "misc"

\* C23, the step that routes a line: a line that starts with the
\* acknowledgement marker changes nothing but the tracker; a watch or request
\* line leaves the tracker and both channels alone; a scripttell line is
\* appended without its prefix to the scripttell channel and changes nothing
\* else; any other line is appended as it is to the misc channel and changes
\* nothing else.
C23_RouteStep ==
    HandlesOneLine =>
        LET msg == Head(stdin)
        IN  CASE RouteOf(msg) = "comc" -> UNCHANGED inputVars
              [] RouteOf(msg) \in {"watch", "request"} ->
                     UNCHANGED <<commandQueue, pendingCommands, wire,
                                 pendingScripttells, pendingMiscInputs>>
              [] RouteOf(msg) = "scripttell" ->
                     /\ pendingScripttells' =
                            Append(pendingScripttells, From(msg, Len("scripttell ") + 1))
                     /\ UNCHANGED <<commandQueue, pendingCommands, wire,
                                    pendingMiscInputs, playerInfo, itemLists,
                                    itemListsInProgress, sentToClient>>
              [] RouteOf(msg) = "misc" ->
                     /\ pendingMiscInputs' = Append(pendingMiscInputs, msg)
                     /\ UNCHANGED <<commandQueue, pendingCommands, wire,
                                    pendingScripttells, playerInfo, itemLists,
                                    itemListsInProgress, sentToClient>>

\* C23, in every state: no line of a recognized form is in the misc channel,
\* and no scripttell is stored with its prefix.
C23_Exclusive ==
    /\ \A i \in 1..Len(pendingMiscInputs) : RouteOf(pendingMiscInputs[i]) = "misc"
    /\ \A i \in 1..Len(pendingScripttells) :
           ~startswith(pendingScripttells[i], "scripttell ")

\* C23: routing is total and exclusive, in the priority order acknowledgement,
\* watch, request, scripttell, misc.
C23_RoutingTotalExclusive == [](C23_Exclusive) /\ [][C23_RouteStep]_vars

\* C23 witness: an acknowledgement has resolved a pending command, and a
\* scripttell and a line of no recognized form are in their channels.
C23_Witness ==
    /\ pendingScripttells = <<"hello">>
    /\ pendingMiscInputs # <<>>
    /\ Len(wire) >= 2
    /\ served >= 1
    /\ Len(pendingCommands) < Len(wire)
    /\ stdin = <<>>
    /\ failed = ""

\* The request type of an item line, the rest of the line, and the Item an
\* item line of the model stands for.
TypeOfLine(msg) == IF startswith(msg, "request items inv ") THEN "inv" ELSE "on"

IsEndMarker(msg) == msg \in {"request items inv end", "request items on end"}

ItemOfLine(msg) ==
    IF msg = "request items inv 42 1 100 16 51 a leather pouch"
    THEN [tag |-> 42, num |-> 1, weight |-> 100, flags |-> 16, clientType |-> 51,
          name |-> "a leather pouch"]
    ELSE [tag |-> 43, num |-> 2, weight |-> 5, flags |-> 0, clientType |-> 8,
          name |-> "nine silver coins"]

\* C24, the step that routes an item line or an end marker of type t: with no
\* request for t in progress it is dropped with a warning and no list
\* changes; an item line of a request in progress is appended to the list in
\* progress of t; the end marker makes that list the completed list of t, in
\* place of any older one, and clears the slot.  The lists of the other type
\* stay as they are.
C24_ItemStep ==
    (HandlesOneLine /\ Head(stdin) \in ItemLines) =>
        LET msg == Head(stdin)
            t   == TypeOfLine(msg)
        IN  /\ failed' = ""
            /\ IF t \notin DOMAIN itemListsInProgress
               THEN /\ Reports("4 WARNING")
                    /\ UNCHANGED <<itemLists, itemListsInProgress>>
               ELSE IF IsEndMarker(msg)
               THEN /\ DOMAIN itemLists' = DOMAIN itemLists \cup {t}
                    /\ itemLists'[t] = itemListsInProgress[t]
                    /\ \A u \in DOMAIN itemLists \ {t} : itemLists'[u] = itemLists[u]
                    /\ DOMAIN itemListsInProgress' = DOMAIN itemListsInProgress \ {t}
                    /\ \A u \in DOMAIN itemListsInProgress' :
                           itemListsInProgress'[u] = itemListsInProgress[u]
                    /\ UNCHANGED sentToClient
               ELSE /\ DOMAIN itemListsInProgress' = DOMAIN itemListsInProgress
                    /\ itemListsInProgress'[t] =
                           Append(itemListsInProgress[t], ItemOfLine(msg))
                    /\ \A u \in DOMAIN itemListsInProgress \ {t} :
                           itemListsInProgress'[u] = itemListsInProgress[u]
                    /\ UNCHANGED <<itemLists, sentToClient>>

C24_ItemListStateMachine == [][C24_ItemStep]_vars

\* C24 witness: two item lines and the end marker have made the completed
\* inventory, in arrival order, the first item locked (bit 0x10), and no list
\* of the other type exists.
C24_Witness ==
    /\ "inv" \in DOMAIN itemLists
    /\ Len(itemLists["inv"]) = 2
    /\ itemLists["inv"][1].tag = 42
    /\ itemLists["inv"][1].name = "a leather pouch"
    /\ locked(itemLists["inv"][1])
    /\ itemLists["inv"][2].tag = 43
    /\ ~locked(itemLists["inv"][2])
    /\ "inv" \notin DOMAIN itemListsInProgress
    /\ "on" \notin DOMAIN itemLists

\* The lines a step writes to stdout besides commands.
NewlySent == SubSeq(sentToClient', Len(sentToClient) + 1, Len(sentToClient'))

\* C25, for a requestItemsOfType(t) call made while a request for t is in
\* progress: it is reported as an error, no request line is written, the
\* list in progress keeps the items it has, and the call returns.
C25_SecondRequest ==
    \A t \in ItemTypes :
        (RequestItemsOfType(t) /\ t \in DOMAIN itemListsInProgress) =>
            /\ Reports("3 ERROR")
            /\ UNCHANGED <<itemListsInProgress, itemLists>>
            /\ pc' = "ready" /\ failed' = ""

\* C25, for every step: a request line for t is written only when no
\* request for t is in progress, and it starts the list of t empty.
C25_OneRequest ==
    \A t \in ItemTypes :
        (\E i \in 1..Len(NewlySent) : NewlySent[i] = "request items " \o t) =>
            /\ t \notin DOMAIN itemListsInProgress
            /\ Len(NewlySent) = 1
            /\ t \in DOMAIN itemListsInProgress'
            /\ itemListsInProgress'[t] = <<>>

\* C25: at most one request per type is in progress at any time.
C25_OneRequestPerType == [][C25_SecondRequest /\ C25_OneRequest]_vars

\* C25 witness: a second requestItemsOfType("inv") was refused while the list
\* in progress held an item, and the list still holds it.
C25_Witness ==
    /\ \E i \in 1..Len(sentToClient) :
           startswith(sentToClient[i], "draw 3 ERROR: Already in the middle")
    /\ "inv" \in DOMAIN itemListsInProgress
    /\ Len(itemListsInProgress["inv"]) = 1
    /\ Cardinality({i \in 1..Len(sentToClient) :
                        sentToClient[i] = "request items inv"}) = 1

\* C26: when getItemsOfType(t) returns, the request it made or found has
\* received its end marker: no request for t is in progress
\* (hasUpdItemsOfType(t)), and the list returned is the completed list of t.
C26_GetItemsReturnsLatest ==
    (returned = "getItemsOfType" /\ pc = "ready") =>
        /\ requestType \in DOMAIN itemLists
        /\ requestType \notin DOMAIN itemListsInProgress
        /\ result = <<itemLists[requestType]>>

\* The messages of a channel that have arrived, oldest first: those already
\* routed to its queue, then those of the lines the script has not read yet.
RECURSIVE ArrivedIn(_, _)
ArrivedIn(kind, lines) ==
    IF lines = <<>> THEN <<>>
    ELSE LET msg == Head(lines)
             own == IF RouteOf(msg) # kind THEN <<>>
                    ELSE IF kind = "scripttell"
                    THEN <<From(msg, Len("scripttell ") + 1)>>
                    ELSE <<msg>>
         IN  own \o ArrivedIn(kind, Tail(lines))

Channel(kind) ==
    (IF kind = "scripttell" THEN pendingScripttells ELSE pendingMiscInputs)
        \o ArrivedIn(kind, stdin)

KindOf(o) ==
    IF o \in {"hasScripttell", "waitForScripttell", "getNextScripttell"}
    THEN "scripttell" ELSE "misc"

\* The steps at which a has*, getNext* or waitFor* call returns to the script.
HasReturns(o) ==
    /\ returned' = ""
    /\ pc' = "ready"
    /\ \/ HasInputInQueue(o)
       \/ op = o /\ InputsHandled

BlockingReturns(o) ==
    /\ returned' = o
    /\ \/ GetNextInputFromQueue(o)
       \/ WaitForInputInQueue(o)
       \/ op = o /\ InputsHandled

\* C27, has*: the answer is whether the channel holds a message once the
\* lines that have arrived are routed, and no message is removed.
C27_Has ==
    \A o \in HasQueries :
        HasReturns(o) =>
            /\ result' = <<Channel(KindOf(o))' # <<>> >>
            /\ \A kind \in {"scripttell", "misc"} : Channel(kind)' = Channel(kind)

\* C27, getNext*: it returns only from a non-empty channel, returns the oldest
\* message of the channel and removes exactly that one.
C27_GetNext ==
    \A o \in GetNextOps :
        BlockingReturns(o) =>
            /\ Channel(KindOf(o)) # <<>>
            /\ result' = <<Head(Channel(KindOf(o)))>>
            /\ Channel(KindOf(o))' = Tail(Channel(KindOf(o)))
            /\ \A kind \in {"scripttell", "misc"} \ {KindOf(o)} :
                   Channel(kind)' = Channel(kind)

\* C27, waitFor*: it returns only when a message is in the queue, and
\* removes nothing.
C27_WaitFor ==
    \A o \in WaitForOps :
        BlockingReturns(o) =>
            /\ Len(QueueOf(o)) > 0
            /\ \A kind \in {"scripttell", "misc"} : Channel(kind)' = Channel(kind)

\* C27, order and exactly once: a channel changes only by a message of the
\* client arriving at its end and by a getNext* of its kind returning its
\* oldest message.
C27_Fifo ==
    \A kind \in {"scripttell", "misc"} :
        \/ Channel(kind)' = Channel(kind)
        \/ /\ Len(stdin') = Len(stdin) + 1
           /\ Channel(kind)' =
                  Channel(kind) \o ArrivedIn(kind, <<stdin'[Len(stdin')]>>)
        \/ \E o \in GetNextOps : KindOf(o) = kind /\ BlockingReturns(o)

C28_DrainStep ==
    (op = "idle" /\ pc = "drain") =>
        /\ stdin # <<>> => pc' # "ready"
        /\ pc' = "ready" => stdin' = <<>>
        /\ stdin' # stdin =>
              \/ /\ Len(stdin') = Len(stdin) + 1
                 /\ SubSeq(stdin', 1, Len(stdin)) = stdin
                 /\ UNCHANGED <<pendingScripttells, pendingMiscInputs, pc>>
              \/ /\ stdin # <<>>
                 /\ stdin' = Tail(stdin)
                 /\ pendingScripttells' =
                        pendingScripttells \o ArrivedIn("scripttell", <<Head(stdin)>>)
                 /\ pendingMiscInputs' =
                        pendingMiscInputs \o ArrivedIn("misc", <<Head(stdin)>>)

ResponseFor ==
    [havePlayerId |-> "request player ", haveVitalStats |-> "request stat hp ",
     haveCombatStats |-> "request stat cmbt ",
     haveAbilityScores |-> "request stat stats "]

\* C29, a step: watchStats writes the four requests and the subscription;
\* with waitForInitialValues false the same step returns; a presence flag is
\* raised only by reading the response for its category, so a pushed single
\* stat raises none; watchStats(True) returns only with all four raised.
C29_Step ==
    /\ (pc = "ready" /\ sentToClient' # sentToClient) =>
           sentToClient' = sentToClient \o
               <<"request player", "request stat hp", "request stat stats",
                 "request stat cmbt", "watch stats">>
    /\ WatchStats(FALSE) =>
           pc' = "ready" /\ op' = "none" /\ playerInfo' = playerInfo
    /\ \A flag \in DOMAIN ResponseFor :
           (playerInfo'[flag] /\ ~playerInfo[flag]) =>
               HandlesOneLine /\ startswith(Head(stdin), ResponseFor[flag])
    /\ (HandlesOneLine /\ startswith(Head(stdin), "watch stats ")) =>
           \A flag \in DOMAIN ResponseFor : playerInfo'[flag] = playerInfo[flag]
    /\ returned' = "watchStats" =>
           \A flag \in DOMAIN ResponseFor : playerInfo'[flag]

\* C29: watchStats(True) returns only after the player's identity and the
\* three stat blocks have each been received at least once, pushed single
\* stats not counting; watchStats(False) returns as soon as it has written
\* the requests and the subscription.
C29_WatchStatsWaits == [][C29_Step]_vars

\* watchStats(True) has returned; a pushed hp was received after the vitals.
C29_Witness ==
    /\ returned = "watchStats"
    /\ pc = "ready"
    /\ haveAllStats(playerInfo)
    /\ playerInfo.hp = <<49>>

\* PlayerInfo with the fields named in names set to the numbers in values.
RECURSIVE WithStats(_, _, _)
WithStats(info, names, values) ==
    IF names = <<>> THEN info
    ELSE WithStats([info EXCEPT ![Head(names)] = <<Head(values)>>],
                   Tail(names), Tail(values))

\* What each well-formed stat block of StatLines says: the flag of its
\* category, the fields of the category in order, and their values.
StatBlocks ==
    {[line |-> "request stat hp 50 50 20 20 0 0 999", flag |-> "haveVitalStats",
      names |-> <<"hp", "maxhp", "sp", "maxsp", "grace", "maxgrace", "food">>,
      values |-> <<50, 50, 20, 20, 0, 0, 999>>],
     [line |-> "request stat hp 48 50 15 20 3 7 998", flag |-> "haveVitalStats",
      names |-> <<"hp", "maxhp", "sp", "maxsp", "grace", "maxgrace", "food">>,
      values |-> <<48, 50, 15, 20, 3, 7, 998>>],
     [line |-> "request stat cmbt 1 2 3 4 5", flag |-> "haveCombatStats",
      names |-> <<"wc", "ac", "dam", "speed", "weapon_sp">>,
      values |-> <<1, 2, 3, 4, 5>>],
     [line |-> "request stat stats 1 2 3 4 5 6 7", flag |-> "haveAbilityScores",
      names |-> <<"str", "con", "dex", "int", "wis", "pow", "cha">>,
      values |-> <<1, 2, 3, 4, 5, 6, 7>>]}

\* C30, the step that reads a well-formed stat block: the fields of its
\* category take the values of the line in order and its flag is raised;
\* every other field and flag of PlayerInfo, the identity included, and
\* everything else the script holds stay as they were.
C30_BlockStep ==
    \A b \in StatBlocks :
        (HandlesOneLine /\ Head(stdin) = b.line) =>
            /\ playerInfo' =
                   [WithStats(playerInfo, b.names, b.values) EXCEPT ![b.flag] = TRUE]
            /\ failed' = ""
            /\ UNCHANGED <<pendingScripttells, pendingMiscInputs, itemLists,
                           itemListsInProgress, sentToClient, commandQueue,
                           pendingCommands, wire>>

\* C30: a well-formed stat block updates exactly its own category.
C30_StatBlockFrame == [][C30_BlockStep]_vars

\* The vitals have been received as 50 50 20 20 0 0 999 while the combat
\* stats and the ability scores are still unset.
C30_Witness ==
    /\ playerInfo.haveVitalStats
    /\ playerInfo.hp = <<50>>
    /\ playerInfo.food = <<999>>
    /\ ~playerInfo.haveCombatStats
    /\ ~playerInfo.haveAbilityScores
    /\ playerInfo.wc = None
    /\ playerInfo.str = None
    /\ playerInfo.havePlayerId

\* The command whose encoding the script has just been given.
Encoded == object # None /\ result # None

\* C31 as stated: an ordinary command with count c and text t is written as
\* "issue c 1 t", with c = 1 when no count is given; a special command is
\* written as its text alone, with no "issue" before it; a command is
\* acknowledgeable iff it is not special.
C31_SpecialIsRawText ==
    Encoded =>
        /\ ~object.isSpecial =>
               result = <<"issue "
                            \o (IF object.count = None THEN "1"
                                ELSE ToString(object.count[1]))
                            \o " 1 " \o object.commandString>>
        /\ object.isSpecial => result = <<object.commandString>>
        /\ getsComc(object) <=> ~object.isSpecial

\* C31 amended: as above, but a special command is written as "issue "
\* followed by its text: what it leaves out is the count and the 1.
C31_CommandEncoding ==
    Encoded =>
        /\ ~object.isSpecial =>
               result = <<"issue "
                            \o (IF object.count = None THEN "1"
                                ELSE ToString(object.count[1]))
                            \o " 1 " \o object.commandString>>
        /\ object.isSpecial => result = <<"issue " \o object.commandString>>
        /\ getsComc(object) <=> ~object.isSpecial

\* A mark command constructed with a count has been encoded.
C31_Witness ==
    /\ Encoded
    /\ object = CommandObject("mark 5", <<2>>, TRUE)
    /\ result = <<"issue mark 5">>

\* The bit (a power of two) is set in the number n.
HasBit(n, bit) == n % (2 * bit) >= bit

\* C32, a step: a flag query answers whether its bit is set and changes
\* nothing; setting a flag to true or false sets or clears exactly its bit,
\* which is no change when the flag has that value already.
C32_FlagStep ==
    /\ \A name \in DOMAIN FlagBits :
           GetFlag(name) =>
               /\ result' = <<HasBit(object.flags, FlagBits[name])>>
               /\ object' = object
    /\ \A name \in DOMAIN FlagBits, val \in BOOLEAN :
           SetFlag(name, val) =>
               LET bit == FlagBits[name]
                   was == HasBit(object.flags, bit)
               IN  /\ object'.flags =
                          IF val = was THEN object.flags
                          ELSE IF val THEN object.flags + bit
                          ELSE object.flags - bit
                   /\ \A other \in DOMAIN FlagBits \ {name} :
                          HasBit(object'.flags, FlagBits[other])
                              <=> HasBit(object.flags, FlagBits[other])
                   /\ HasBit(object'.flags, bit) <=> val
                   /\ object' = [object EXCEPT !.flags = object'.flags]

\* C32: the ten flags of an item are independent bits: each query is true iff
\* its bit is set, and each setter changes exactly its own bit.
C32_ItemFlags == [][C32_FlagStep]_vars

\* An item with flags 0x0100: it was not constructed with that value, so a
\* setter has produced it, e.g. locked = False on flags 0x0010 | 0x0100.
C32_Witness ==
    /\ IsItem(object)
    /\ object.flags = 256
    /\ result = <<FALSE>>

\* C33, in every state: what the script has written to the client starts
\* with "watch comc", written once, then "request player"; a script whose
\* constructor has returned knows the player's tag.
C33_Written ==
    /\ sentToClient # <<>> =>
           /\ Len(sentToClient) >= 2
           /\ sentToClient[1] = "watch comc"
           /\ sentToClient[2] = "request player"
           /\ \A i \in 2..Len(sentToClient) : sentToClient[i] # "watch comc"
    /\ (instances >= 1 /\ pc = "ready") => playerInfo.tag # None
    /\ wire # <<>> => sentToClient # <<>>

\* C33, a step: a command is written only after "watch comc" was; the
\* constructor returns only with the tag known; a line read during
\* construction goes where any line goes: a scripttell or a line of no
\* recognized kind to the end of its channel.
C33_Step ==
    /\ wire' # wire => (sentToClient # <<>> /\ sentToClient[1] = "watch comc")
    /\ returned' = "__init__" => playerInfo'.tag # None
    /\ (op = "__init__" /\ HandlesOneLine) =>
           /\ pendingScripttells' =
                  pendingScripttells \o ArrivedIn("scripttell", <<Head(stdin)>>)
           /\ pendingMiscInputs' =
                  pendingMiscInputs \o ArrivedIn("misc", <<Head(stdin)>>)

\* C33: the constructor writes "watch comc" first and once, then "request
\* player", and returns only when the player's tag is known; no command is
\* written before "watch comc", and lines that arrive during construction are
\* routed as usual.
C33_StartupOrdering == []C33_Written /\ [][C33_Step]_vars

\* The constructor has returned; a scripttell that arrived while it waited
\* is in its channel.
C33_Witness ==
    /\ returned = "__init__"
    /\ pc = "ready"
    /\ playerInfo.tag = <<1>>
    /\ pendingScripttells = <<"hi">>
    /\ sentToClient = <<"watch comc", "request player">>

\* C34: in every state the lower bound on the pending commands is between 0
\* and the upper bound, which is the number of pending commands; the lower
\* bound is the number of pending commands from the first acknowledgeable one
\* to the last; it is 0 iff no pending command is acknowledgeable, so that
\* the assertion at the start of _pumpQueue has never failed.
C34_PendingBounds ==
    LET p    == pendingCommands
        low  == BoundPendingCommandsLow(p)
        high == BoundPendingCommandsHigh(p)
    IN  /\ 0 <= low
        /\ low <= high
        /\ high = Len(p)
        /\ low = Cardinality({i \in 1..Len(p) : \E j \in 1..i : getsComc(p[j])})
        /\ (low = 0) <=> ~(\E i \in 1..Len(p) : getsComc(p[i]))
        /\ failed # "_pumpQueue: anyGetsComc == (lowBound != 0)"
        /\ lastPump.ran =>
               (AnyGetsComc(lastPump.pending0)
                    <=> BoundPendingCommandsLow(lastPump.pending0) # 0)

\* Three commands are pending, the oldest a special one, the next an
\* ordinary one: the bounds are 2 and 3.
C34_Witness ==
    /\ Len(pendingCommands) = 3
    /\ ~getsComc(pendingCommands[1])
    /\ getsComc(pendingCommands[2])
    /\ ~getsComc(pendingCommands[3])
    /\ BoundPendingCommandsLow(pendingCommands) = 2
    /\ BoundPendingCommandsHigh(pendingCommands) = 3

\* The longest run of commands without acknowledgement that the rule of
\* _pumpQueue forbids for target t.
ForbiddenRun(t) == IF t = 1 THEN 2 ELSE t

\* The wire carries n commands in a row, from position i, none of which the
\* server acknowledges.
NonComcRun(i, n) ==
    /\ i + n - 1 <= Len(wire)
    /\ \A j \in i..(i + n - 1) : ~getsComc(wire[j])

\* C35: with a fixed target N >= 1 the wire never carries max(N, 2) commands
\* in a row that the server does not acknowledge, also when a comc arrives
\* while only such commands are pending.
C35_BoundedNonComcRuns ==
    targetPendingCommands >= 1 =>
        \A i \in 1..Len(wire) :
            ~NonComcRun(i, ForbiddenRun(targetPendingCommands))

\* The script is inside a call that returns only with an empty queue, and
\* the queue is not empty.
BlockedOnQueue ==
    /\ op \in {"issueQueuedCommands", "flushCommands"}
    /\ pc \in {"wait", "drain"}
    /\ commandQueue # <<>>
    /\ op = "issueQueuedCommands" => maxQueueSize = 0

\* C38, in every state with target 0: the pacing invariant holds, and
\* flushCommands or issueQueuedCommands(0) has not returned with commands in
\* the queue.
C38_NotReturned ==
    targetPendingCommands = 0 =>
        /\ HasTargetPendingCommands(pendingCommands, 0)
        /\ commandQueue # <<>> =>
               /\ returned # "flushCommands"
               /\ returned = "issueQueuedCommands" => maxQueueSize # 0

\* C38, for every step that ends with target 0: a pump that ran sent nothing,
\* the only commands written are no-ops of idle(), the queued commands stay
\* queued, no assertion fails, and a call that waits for the queue to empty
\* goes on waiting.
C38_Step ==
    targetPendingCommands' = 0 =>
        /\ lastPump'.ran => (lastPump'.sent = <<>> /\ ~lastPump'.sentAny)
        /\ \A i \in (Len(wire) + 1)..Len(wire') : IsNoOp(wire'[i])
        /\ IsPrefix(commandQueue, commandQueue')
        /\ failed' = failed
        /\ (targetPendingCommands = 0 /\ BlockedOnQueue) =>
               /\ op' = op
               /\ returned' = ""
               /\ pc' \in {"wait", "drain"}
               /\ commandQueue' = commandQueue

\* C38: with target 0 the pump dispatches nothing, every enqueued command
\* stays queued, the pacing invariant holds, and issueCommand,
\* issueQueuedCommands(0) and flushCommands with a non-empty queue do not
\* return while the target is 0.
C38_ZeroTargetSendsNothing == []C38_NotReturned /\ [][C38_Step]_vars

\* flushCommands waits with target 0 and a command in the queue, after the
\* server has acknowledged everything that was sent while the target was
\* higher.
C38_Witness ==
    /\ targetPendingCommands = 0
    /\ op = "flushCommands"
    /\ pc = "wait"
    /\ commandQueue # <<>>
    /\ wire # <<>>
    /\ served = Len(wire)
    /\ pendingCommands = <<>>
    /\ stdin = <<>>

\* C39, after the dispatch loop of a pump that sent something and raised
\* nothing: the local lowBound is the recomputed lower bound on the pending
\* commands, and the local anyGetsComc says whether some pending command is
\* acknowledgeable, also when an acknowledgeable command was sent while none
\* was pending before.
C39_LocalsTrackState ==
    (lastPump.ran /\ lastPump.sentAny /\ failed = "") =>
        /\ lastPump.lowBound = lastPump.lowAfter
        /\ lastPump.anyGetsComc = lastPump.anyAfter

\* What a line written to stdin is for the consumer: the line without its
\* newline.
Content(raw) == SubSeq(raw, 1, Len(raw) - 1)

\* C37, in every state: the lines handed to the consumer, then those in the
\* queue, then the one the input thread holds, are the lines read from stdin
\* so far in the order written, each once; and checkForInput can run at once
\* whenever the consumer is not inside waitForInput.
C37_Handoff ==
    /\ LET n == Len(typed) - Len(pipe)
       IN  handed \o inputQueue \o held = [i \in 1..n |-> Content(typed[i])]
    /\ getting = "none" => ENABLED CheckForInput

\* C37, for every step of the consumer: checkForInput returns in the same
\* step, None exactly when the queue is empty and else the oldest line;
\* waitForInput returns a line whenever it returns without a timeout, and
\* None only from a call with a timeout during which the queue was empty.
C37_Step ==
    /\ CheckForInput =>
           /\ getting' = "none"
           /\ (got' = None) <=> (inputQueue = <<>>)
           /\ inputQueue # <<>> => got' = <<Head(inputQueue)>>
    /\ \A tmo \in {"block", "timed"} :
           (getting' = "none" /\ WaitForInput(tmo)) =>
               (got' = <<Head(inputQueue)>> /\ inputQueue' = Tail(inputQueue))
    /\ (getting # "none" /\ getting' = "none") =>
           \/ /\ inputQueue # <<>>
              /\ got' = <<Head(inputQueue)>>
              /\ inputQueue' = Tail(inputQueue)
           \/ /\ got' = None
              /\ getting = "timed"
              /\ inputQueue = <<>>
              /\ ~available

\* C37: InputHandler hands the lines to the consumer in the order written,
\* each once, under every interleaving of the input thread and the consumer;
\* checkForInput never blocks and returns None exactly when no line is in
\* the queue; waitForInput returns None only when its timeout has passed
\* without a line.
C37_FifoHandoff == []C37_Handoff /\ [][C37_Step]_vars

\* Two lines, one of them empty, have been handed over in the order written,
\* and the consumer has then got None while the input thread holds the third.
C37_Witness ==
    /\ typed = <<"\n", "watch comc\n", "scripttell hi\n">>
    /\ handed = <<"", "watch comc">>
    /\ held = <<"scripttell hi">>
    /\ inputQueue = <<>>
    /\ got = None
    /\ getting = "none"

====
